---- MODULE Spec2Model ----
(***************************************************************************)
(* Model of the octopus-home-mini monitor: the poll cycle of               *)
(* pkg/monitor (Monitor.Run / poll / writeToInflux / cacheData /           *)
(* checkInfluxHealth / tryReconnectInflux / SyncCache), the in-memory      *)
(* cache of pkg/cache (Cache.Add / GetAll / Clear / save / Load) and the   *)
(* start and shutdown of the two background goroutines in main.            *)
(*                                                                         *)
(* Measurements are numbered 1, 2, 3, ... in the order the source returns  *)
(* them, so that every fetched measurement is distinguishable.  The clock  *)
(* is read once per cycle and counts the firings of Run's ticker.          *)
(***************************************************************************)
EXTENDS Integers, Sequences, FiniteSets, TLC

\* ---------------------------------------------------------------- bounds
MaxCycles == 2
MaxBatch == 2
MaxThreshold == 2
MaxBackoffCap == 3
MaxPreload == 1
\* entries another task may add to the cache while one drain is running
MaxConcurrentAdds == 1
\* attempts backoff.Retry makes before its elapsed-time budget is used up
MaxAttempts == 3
\* requests counted in one window of the circuit breaker
MaxWindowRequests == 5
\* expiries of the circuit breaker's Interval and Timeout that are followed
MaxGenerations == 2
\* days the cache directory is followed over
MaxDays == 2
\* data points handed to Cache.Add
MaxCachePoints == 3
MaxNotes == 4
MaxRetentionDays == 1
MaxTasks == 2
TicksPerDay == 2

\* ------------------------------------------------------- program constants
\* m.setBackoffFactor(2) on entering degraded mode
DegradedEntryBackoff == 2

VARIABLES
    cfg,            \* Cfg.ConsecutiveErrorThreshold, Cfg.MaxBackoffFactor
    influxClientNil,\* m.InfluxClient == nil (sink unreachable at startup)
    consecutiveErr, \* Monitor.consecutiveErr
    degradedMode,   \* Monitor.degradedMode
    backoffFactor,  \* Monitor.backoffFactor
    influxHealthy,  \* Monitor.influxHealthy
    LastPollTime,   \* Monitor.LastPollTime
    now,            \* time.Now(), in firings of the ticker
    data,           \* Cache.data (in memory)
    disk,           \* contents of the snapshot file written by Cache.save
    sink,           \* points stored in InfluxDB (a rewritten point replaces itself)
    pc,             \* position of the poll goroutine
    telemetryData,  \* poll(): batch returned by GetTelemetry
    cachedData,     \* SyncCache(): snapshot returned by Cache.GetAll
    syncIdx,        \* SyncCache(): index of the range loop
    syncRet,        \* where SyncCache returns to
    fetched,        \* number of measurements the source has handed out
    hist,           \* history of the current/last cycle and drain (observation only)
    sinkReliable,   \* InfluxDB is up for good: every probe and write succeeds
    stopChan,       \* main's stopChan: "open" or "closed"
    tickPending,    \* a tick is waiting in the channel of Run's ticker
    tickerPeriod,   \* period of Run's ticker, in multiples of Cfg.PollInterval
    cleanupPc,      \* position of the RunCacheCleanup goroutine
    mainPc,         \* position of main
    slack,          \* Monitor.SlackNotifier: configured or nil, last notification
    files,          \* cache directory: the snapshot file of each day
    today,          \* date of time.Now(), in days
    cacheOp,        \* the last call on the Cache (observation only)
    adders,         \* the tasks calling Cache.Add: position, local slice, batch
    mu,             \* Cache.mu: the task holding it, 0 when free
    tick,           \* the time of day, in ticks since midnight
    mtime,          \* per snapshot file: the tick of its day it was last written at
    pollStep,       \* poll(): position between two accessor calls
    reader,         \* a second goroutine reading the state through the accessors
    healthSrv,      \* health.Server: registered checker names, started or not
    readiness,      \* the /ready request being handled
    cb,             \* octopus.Client.circuitBreaker: state, generation, counts
    call            \* the GetTelemetry call in flight, and how the last one ended

vars == <<cfg, influxClientNil, consecutiveErr, degradedMode, backoffFactor,
          influxHealthy, LastPollTime, now, data, disk, sink, pc,
          telemetryData, cachedData, syncIdx, syncRet, fetched, hist,
          sinkReliable, stopChan, tickPending, tickerPeriod, cleanupPc, mainPc,
          slack, files, today, cacheOp, tick, mtime, adders, mu,
          pollStep, reader,
          healthSrv, readiness, cb, call>>

\* ------------------------------------------------------------- helpers
Min(a, b) == IF a < b THEN a ELSE b
Max(a, b) == IF a > b THEN a ELSE b
Range(s) == {s[i] : i \in 1..Len(s)}
\* the measurements numbered from+1 .. from+m, in order
Fresh(from, m) == [i \in 1..m |-> from + i]

\* snapshot of the three degraded-mode fields
MonitorState == [consecutiveErr |-> consecutiveErr,
                 degradedMode   |-> degradedMode,
                 backoffFactor  |-> backoffFactor]

\* ------------------------------------------------------ pkg/cache (Cache)
\* variant: Add replaces the slice instead of appending to it
CacheAdd_overwrite(d, dataPoints) == dataPoints

\* variant: the append is lost
CacheAdd_keepOld(d, dataPoints) == d

\* Cache.Add: c.data = append(c.data, dataPoints...)
CacheAdd(d, dataPoints) == d \o dataPoints

\* variant: the copy is cut short after the first element
CacheGetAll_firstOnly(d) == SubSeq(d, 1, Min(1, Len(d)))

\* Cache.GetAll: a copy of c.data
CacheGetAll(d) == d

\* variant: Clear leaves the slice as it is
CacheClear_noop(d) == d

\* Cache.Clear: c.data = make([]DataPoint, 0)
CacheClear(d) == <<>>

\* Cache.Count: len(c.data)
CacheCount(d) == Len(d)

\* Cache.save: the snapshot file holds c.data when os.WriteFile succeeds and
\* keeps its old contents when it fails
CacheSave(d, file, writeOk) == IF writeOk THEN d ELSE file

\* variant: NewCache starts from an empty slice without reading the file
CacheLoad_startFresh(file) == <<>>

\* Cache.Load (called by NewCache): the records of the latest snapshot file,
\* in the order Cache.save wrote them
CacheLoad(file) == file

\* ------------------------------------------- pkg/monitor, degraded mode
\* variant: degraded mode is entered one failure late (> for >=)
FetchFailed_lateEntry(st, c) ==
    LET consecutiveErrs == st.consecutiveErr + 1 IN
    IF consecutiveErrs > c.ConsecutiveErrorThreshold
    THEN IF ~st.degradedMode
         THEN [consecutiveErr |-> consecutiveErrs,
               degradedMode   |-> TRUE,
               backoffFactor  |-> DegradedEntryBackoff]
         ELSE IF st.backoffFactor < c.MaxBackoffFactor
              THEN [consecutiveErr |-> consecutiveErrs,
                    degradedMode   |-> st.degradedMode,
                    backoffFactor  |-> st.backoffFactor + 1]
              ELSE [st EXCEPT !.consecutiveErr = consecutiveErrs]
    ELSE [st EXCEPT !.consecutiveErr = consecutiveErrs]

\* variant: the backoff factor is raised without looking at the maximum
FetchFailed_noCap(st, c) ==
    LET consecutiveErrs == st.consecutiveErr + 1 IN
    IF consecutiveErrs >= c.ConsecutiveErrorThreshold
    THEN IF ~st.degradedMode
         THEN [consecutiveErr |-> consecutiveErrs,
               degradedMode   |-> TRUE,
               backoffFactor  |-> DegradedEntryBackoff]
         ELSE [consecutiveErr |-> consecutiveErrs,
               degradedMode   |-> st.degradedMode,
               backoffFactor  |-> st.backoffFactor + 1]
    ELSE [st EXCEPT !.consecutiveErr = consecutiveErrs]

\* poll(), err != nil branch: count the error, enter degraded mode at the
\* threshold, raise the backoff factor while already degraded
FetchFailed(st, c) ==
    LET consecutiveErrs == st.consecutiveErr + 1 IN
    IF consecutiveErrs >= c.ConsecutiveErrorThreshold
    THEN IF ~st.degradedMode
         THEN [consecutiveErr |-> consecutiveErrs,
               degradedMode   |-> TRUE,
               backoffFactor  |-> DegradedEntryBackoff]
         ELSE IF st.backoffFactor < c.MaxBackoffFactor
              THEN [consecutiveErr |-> consecutiveErrs,
                    degradedMode   |-> st.degradedMode,
                    backoffFactor  |-> st.backoffFactor + 1]
              ELSE [st EXCEPT !.consecutiveErr = consecutiveErrs]
    ELSE [st EXCEPT !.consecutiveErr = consecutiveErrs]

\* variant: leaving degraded mode does not reset the backoff factor
FetchSucceeded_keepBackoff(st) ==
    [consecutiveErr |-> 0,
     degradedMode   |-> FALSE,
     backoffFactor  |-> st.backoffFactor]

\* variant: the error counter is not reset
FetchSucceeded_noReset(st) ==
    [consecutiveErr |-> st.consecutiveErr,
     degradedMode   |-> FALSE,
     backoffFactor  |-> IF st.degradedMode THEN 1 ELSE st.backoffFactor]

\* poll(), err == nil: leave degraded mode, reset the error counter
FetchSucceeded(st) ==
    [consecutiveErr |-> 0,
     degradedMode   |-> FALSE,
     backoffFactor  |-> IF st.degradedMode THEN 1 ELSE st.backoffFactor]

\* variant: LastPollTime is advanced before the error check
LastPollTimeAfter_always(fetchOk, last, end) == end

\* poll: m.LastPollTime = end, reached only when GetTelemetry returned no error
LastPollTimeAfter(fetchOk, last, end) == IF fetchOk THEN end ELSE last

\* variant: the conversion loop skips the first record
ToDataPoints_skipFirst(batch) == [i \in 1..(Len(batch) - 1) |-> batch[i + 1]]

\* cacheData: one cache.DataPoint per telemetry record, in order
ToDataPoints(batch) == [i \in 1..Len(batch) |-> batch[i]]

\* writeToInflux: the points accepted before WritePointDirectly fails at the
\* j-th point (j = 0: no failure, the whole batch is accepted)
WrittenPrefix(batch, j) == IF j = 0 THEN batch ELSE SubSeq(batch, 1, j - 1)

\* Config.Validate: the two degraded-mode settings
Validate(c) == c.ConsecutiveErrorThreshold >= 1 /\ c.MaxBackoffFactor >= 1

\* --------------------------------------------------------------- history
\* What the last drain did: the cache it started from, the index of the write
\* that failed (0: none), whether Cache.Clear was reached, the entries another
\* task added between Cache.GetAll and Cache.Clear, whether the snapshot file
\* held the whole cache when the drain started.
NoDrain == [ran |-> FALSE, before |-> <<>>, failedAt |-> 0, cleared |-> FALSE,
            added |-> <<>>, persisted |-> FALSE, attempts |-> <<>>]

\* What the current poll cycle has done so far; recovered: a probe took the
\* sink from unhealthy to healthy, synced: a SyncCache call of the cycle has
\* returned, directAfterSync: synced, as it was when writeToInflux ran,
\* [start, end): the window passed to GetTelemetry, afterStop: stopChan was
\* already closed when the cycle started.
CycleStart(ok, m) ==
    [fetchOk |-> ok, m |-> m, firstId |-> fetched, pre |-> MonitorState,
     healthyAtStart |-> influxHealthy, cacheAtStart |-> data,
     routeBase |-> data, writeFailedAt |-> 0, direct |-> FALSE,
     probes |-> <<>>, recovered |-> FALSE, synced |-> FALSE,
     directAfterSync |-> FALSE, start |-> LastPollTime, end |-> now + 1,
     afterStop |-> (stopChan = "closed")]

\* The outage bookkeeping at the end of a cycle: a cycle with a successful
\* fetch extends the current outage when the sink was unhealthy when the
\* cycle started and no probe of the cycle succeeded; any other cycle ends
\* the outage.
EndCycle(h) ==
    LET cyc  == h.cycle
        down == cyc.fetchOk /\ ~cyc.healthyAtStart
                /\ \A i \in 1..Len(cyc.probes) : ~cyc.probes[i]
    IN  IF down
        THEN [h EXCEPT !.inOutage = TRUE,
                       !.outageBase = IF h.inOutage THEN @ ELSE cyc.cacheAtStart,
                       !.outageFrom = IF h.inOutage THEN @ ELSE cyc.firstId,
                       !.outageSizes = (IF h.inOutage THEN @ ELSE <<>>) \o <<cyc.m>>]
        ELSE [h EXCEPT !.inOutage = FALSE, !.outageBase = <<>>,
                       !.outageFrom = 0, !.outageSizes = <<>>]

\* ------------------------------------------------------------------ Init
\* State after cache.NewCache (Load) and monitor.New
\* gobreaker.Counts of a new generation
NoCounts ==
    [Requests |-> 0, TotalSuccesses |-> 0, TotalFailures |-> 0,
     ConsecutiveSuccesses |-> 0, ConsecutiveFailures |-> 0]

\* no call through the breaker has been made yet; status: the HTTP status of
\* the last response to a notification (0: none, or the request failed)
NoCall ==
    [pc |-> "none", generation |-> 0, attempts |-> 0, err |-> "nil",
     sawPermanent |-> FALSE, afterPermanent |-> 0, stateAtBegin |-> "none",
     status |-> 0,
     last |-> [stateBefore |-> "none", stateAfter |-> "none", failed |-> FALSE,
               counts |-> NoCounts]]

\* the days a snapshot file can bear in its name
Days == 0..MaxDays

\* a snapshot file that does not exist
NoFile == [state |-> "absent", text |-> <<>>]

\* json.MarshalIndent(c.data): the JSON text of each data point, in order
Marshal(d) == [i \in 1..Len(d) |-> ToString(d[i])]

\* json.Unmarshal into c.data: the data point each JSON text stands for
Unmarshal(text) ==
    [i \in 1..Len(text) |->
        CHOOSE n \in 0..(MaxCachePoints + MaxPreload) : ToString(n) = text[i]]

\* no /ready request handled yet
NoRequest ==
    [pc |-> "none", pending |-> {}, components |-> <<>>, returned |-> {},
     ready |-> TRUE, code |-> 0]

\* the tasks that call Cache.Add
Tasks == 1..MaxTasks

\* a task that has not called Cache.Add yet
NoAdd == [pc |-> "idle", buf |-> <<>>, dataPoints |-> <<>>]

\* a reader that has read nothing yet
NoReader ==
    [pc |-> "getDegradedMode", degradedMode |-> FALSE, backoffFactor |-> 1,
     consecutiveErr |-> 0, done |-> FALSE]

\* no call on the Cache yet
NoCacheOp ==
    [op |-> "none", ok |-> TRUE, before |-> <<>>, n |-> 0, allOk |-> TRUE,
     wasAllOk |-> TRUE]

\* The process after construction; slackEnabled is cfg.SlackEnabled, with
\* which main creates the notifier it hands to monitor.New (nil otherwise).
InitWith(slackEnabled) ==
    /\ slack = [enabled |-> slackEnabled, last |-> <<"none", "none">>]
    /\ cfg \in {c \in [ConsecutiveErrorThreshold : 1..MaxThreshold,
                       MaxBackoffFactor : 1..MaxBackoffCap] : Validate(c)}
    /\ influxClientNil \in BOOLEAN
    /\ consecutiveErr = 0
    /\ degradedMode = FALSE
    /\ backoffFactor = 1
    /\ influxHealthy = ~influxClientNil
    /\ now = 0
    /\ LastPollTime = now - 1
    /\ \E n \in 0..MaxPreload :
         /\ disk = Fresh(0, n)
         /\ data = disk
         /\ fetched = n
    /\ sink = {}
    /\ pc = "start"
    /\ telemetryData = <<>>
    /\ cachedData = <<>>
    /\ syncIdx = 0
    /\ syncRet = "idle"
    /\ sinkReliable = FALSE
    /\ stopChan = "open"
    /\ tickPending = FALSE
    /\ tickerPeriod = 1
    /\ cleanupPc = "off"
    /\ mainPc = "startup"
    /\ today = 0
    /\ files = [d \in Days |-> IF d = today /\ Len(disk) > 0
                                THEN [state |-> "written", text |-> Marshal(disk)]
                                ELSE NoFile]
    /\ cacheOp = NoCacheOp
    /\ tick = 0
    /\ adders = [t \in Tasks |-> NoAdd]
    /\ mu = 0
    /\ mtime = [d \in Days |-> 0]
    /\ pollStep = "fetch"
    /\ reader = NoReader
    /\ healthSrv = [checkers |-> {}, started |-> FALSE]
    /\ readiness = NoRequest
    /\ cb = [state |-> "closed", generation |-> 0, counts |-> NoCounts]
    /\ call = NoCall
    /\ hist = [cycle |-> CycleStart(FALSE, 0), drain |-> NoDrain, failStreak |-> 0,
               outageBase |-> <<>>, outageFrom |-> 0, outageSizes |-> <<>>,
               inOutage |-> FALSE, crashed |-> FALSE, crashDrain |-> NoDrain,
               hadOk |-> FALSE, prevOkEnd |-> LastPollTime,
               stopInFlight |-> FALSE, notes |-> <<>>]

\* construction with Slack notifications disabled
Init == InitWith(FALSE)

monitorVars == <<consecutiveErr, degradedMode, backoffFactor>>
cacheVars == <<data, disk>>
syncVars == <<cachedData, syncIdx, syncRet>>
constVars == <<cfg, influxClientNil>>
\* what no step of the poll goroutine writes
outside == <<sinkReliable, stopChan, cleanupPc, mainPc>>
\* Run's ticker
tickerVars == <<tickPending, tickerPeriod>>
\* the source client
clientVars == <<cb, call>>
\* the notifier
slackVars == <<slack>>
\* the callers of Cache.Add and the mutex
addVars == <<adders, mu>>
\* the cache directory
dirVars == <<files, today, cacheOp, tick, mtime>>
\* poll between its accessor calls, and a reader
readerVars == <<pollStep, reader>>
\* the health server
healthVars == <<healthSrv, readiness>>

\* results CheckConnection can give
ProbeOutcomes == IF sinkReliable THEN {TRUE} ELSE BOOLEAN

\* main(): appMonitor.SyncCache() before the poll loop starts
Startup ==
    /\ pc = "start"
    /\ pc' = "sync"
    /\ syncRet' = "main"
    /\ UNCHANGED <<constVars, addVars, readerVars, healthVars, dirVars, slackVars, clientVars, outside, tickerVars, monitorVars,
                   influxHealthy, LastPollTime, now,
                   cacheVars, sink, telemetryData, cachedData, syncIdx,
                   fetched, hist>>

\* main(): SyncCache has returned; go appMonitor.Run(stopChan), whose first
\* statement is time.NewTicker(PollInterval)
StartLoops ==
    /\ pc = "main"
    /\ pc' = "idle"
    /\ mainPc' = "running"
    /\ tickerPeriod' = 1
    /\ tickPending' = FALSE
    /\ UNCHANGED <<constVars, addVars, readerVars, healthVars, dirVars, slackVars, clientVars, sinkReliable, stopChan, cleanupPc, monitorVars,
                   influxHealthy, LastPollTime, now, cacheVars, sink,
                   telemetryData, syncVars, fetched, hist>>

\* ------------------------------------------------------------- Run loop
\* The ticker puts a tick into its channel (capacity 1).  A tick that arrives
\* while poll is running is seen by Run only at its next select, so the model
\* lets it arrive while Run is at the select.
TickerFires ==
    /\ pc = "idle"
    /\ ~tickPending
    /\ tickPending' = TRUE
    /\ UNCHANGED <<constVars, addVars, readerVars, healthVars, dirVars, slackVars, clientVars, outside, tickerPeriod, monitorVars, influxHealthy,
                   LastPollTime, now, cacheVars, sink, pc, telemetryData,
                   syncVars, fetched, hist>>

\* variant: the ticker is always reset to the base interval
TickerPeriodAfter_base(backoff) == 1

\* Run, after poll: Reset(PollInterval * backoff) if backoff > 1, else
\* Reset(PollInterval)
TickerPeriodAfter(backoff) == IF backoff > 1 THEN backoff ELSE 1

\* Run, after m.poll() has returned: backoff := m.getBackoffFactor();
\* ticker.Reset
RearmTicker ==
    /\ pc = "rearm"
    /\ tickerPeriod' = TickerPeriodAfter(backoffFactor)
    /\ pc' = "idle"
    /\ UNCHANGED <<constVars, addVars, readerVars, healthVars, dirVars, slackVars, clientVars, outside, tickPending, monitorVars, influxHealthy,
                   LastPollTime, now, cacheVars, sink, telemetryData, syncVars,
                   fetched, hist>>

\* ------------------------------------------------------------ poll cycle
\* a variant: after the error poll goes on to the health probe
PollFetchFails_thenProbe ==
    /\ pc = "idle"
    /\ tickPending
    /\ now < MaxCycles
    /\ tickPending' = FALSE
    /\ LET st == FetchFailed(MonitorState, cfg) IN
         /\ consecutiveErr' = st.consecutiveErr
         /\ degradedMode' = st.degradedMode
         /\ backoffFactor' = st.backoffFactor
    /\ now' = now + 1
    /\ telemetryData' = <<>>
    /\ LastPollTime' = LastPollTimeAfter(FALSE, LastPollTime, now')
    /\ hist' = ([hist EXCEPT !.cycle = CycleStart(FALSE, 0),
                                     !.drain = NoDrain,
                                     !.failStreak = @ + 1,
                                     !.hadOk = @ \/ hist.cycle.fetchOk,
                                     !.prevOkEnd = IF hist.cycle.fetchOk
                                                   THEN hist.cycle.end ELSE @])
    /\ pc' = "check"
    /\ UNCHANGED <<constVars, addVars, readerVars, healthVars, dirVars, slackVars, clientVars, outside, tickerPeriod, influxHealthy, cacheVars, sink,
                   syncVars, fetched>>

\* Run: select takes the tick;
\* poll: GetTelemetry returns an error
PollFetchFails ==
    /\ pc = "idle"
    /\ tickPending
    /\ now < MaxCycles
    /\ tickPending' = FALSE
    /\ LET st == FetchFailed(MonitorState, cfg) IN
         /\ consecutiveErr' = st.consecutiveErr
         /\ degradedMode' = st.degradedMode
         /\ backoffFactor' = st.backoffFactor
    /\ now' = now + 1
    /\ telemetryData' = <<>>
    /\ LastPollTime' = LastPollTimeAfter(FALSE, LastPollTime, now')
    /\ hist' = EndCycle([hist EXCEPT !.cycle = CycleStart(FALSE, 0),
                                     !.drain = NoDrain,
                                     !.failStreak = @ + 1,
                                     !.hadOk = @ \/ hist.cycle.fetchOk,
                                     !.prevOkEnd = IF hist.cycle.fetchOk
                                                   THEN hist.cycle.end ELSE @])
    /\ pc' = "rearm"
    /\ UNCHANGED <<constVars, addVars, readerVars, healthVars, dirVars, slackVars, clientVars, outside, tickerPeriod, influxHealthy, cacheVars, sink,
                   syncVars, fetched>>

\* Run: select takes the tick;
\* poll: GetTelemetry returns m measurements; the degraded-mode state is
\* reset and LastPollTime advances to the end of the window; an empty batch
\* ends the cycle
PollFetchSucceeds ==
    /\ pc = "idle"
    /\ tickPending
    /\ now < MaxCycles
    /\ tickPending' = FALSE
    /\ \E m \in 0..MaxBatch :
         /\ telemetryData' = Fresh(fetched, m)
         /\ fetched' = fetched + m
         /\ LET h == [hist EXCEPT !.cycle = CycleStart(TRUE, m),
                                  !.drain = NoDrain,
                                  !.failStreak = 0,
                                  !.hadOk = @ \/ hist.cycle.fetchOk,
                                  !.prevOkEnd = IF hist.cycle.fetchOk
                                                THEN hist.cycle.end ELSE @]
            IN  hist' = IF m = 0 THEN EndCycle(h) ELSE h
         /\ pc' = IF m = 0 THEN "rearm" ELSE "check"
    /\ LET st == FetchSucceeded(MonitorState) IN
         /\ consecutiveErr' = st.consecutiveErr
         /\ degradedMode' = st.degradedMode
         /\ backoffFactor' = st.backoffFactor
    /\ now' = now + 1
    /\ LastPollTime' = LastPollTimeAfter(TRUE, LastPollTime, now')
    /\ UNCHANGED <<constVars, addVars, readerVars, healthVars, dirVars, slackVars, clientVars, outside, tickerPeriod, influxHealthy, cacheVars, sink,
                   syncVars>>

\* variant: the recovered sink is written to without draining the cache first
CheckInfluxHealth_noDrain ==
    /\ pc = "check"
    /\ IF influxClientNil
       THEN /\ pc' = "route"
            /\ UNCHANGED <<influxHealthy, syncRet, hist>>
       ELSE \E isHealthy \in ProbeOutcomes :
              LET wasHealthy == influxHealthy IN
              /\ influxHealthy' = isHealthy
              /\ hist' = [hist EXCEPT !.cycle.probes = Append(@, isHealthy),
                                      !.cycle.recovered = ~wasHealthy /\ isHealthy]
              /\ IF FALSE
                 THEN pc' = "sync" /\ syncRet' = "route"
                 ELSE pc' = "route" /\ UNCHANGED syncRet
    /\ UNCHANGED <<constVars, addVars, readerVars, healthVars, dirVars, slackVars, clientVars, outside, tickerVars, monitorVars,
                   LastPollTime, now, cacheVars, sink,
                   telemetryData, cachedData, syncIdx, fetched>>

\* checkInfluxHealth: probe the sink, record the result, drain the cache on
\* an unhealthy -> healthy transition
CheckInfluxHealth ==
    /\ pc = "check"
    /\ IF influxClientNil
       THEN /\ pc' = "route"
            /\ UNCHANGED <<influxHealthy, syncRet, hist>>
       ELSE \E isHealthy \in ProbeOutcomes :
              LET wasHealthy == influxHealthy IN
              /\ influxHealthy' = isHealthy
              /\ hist' = [hist EXCEPT !.cycle.probes = Append(@, isHealthy),
                                      !.cycle.recovered = ~wasHealthy /\ isHealthy]
              /\ IF ~wasHealthy /\ isHealthy
                 THEN pc' = "sync" /\ syncRet' = "route"
                 ELSE pc' = "route" /\ UNCHANGED syncRet
    /\ UNCHANGED <<constVars, addVars, readerVars, healthVars, dirVars, slackVars, clientVars, outside, tickerVars, monitorVars,
                   LastPollTime, now, cacheVars, sink,
                   telemetryData, cachedData, syncIdx, fetched>>

\* poll, healthy branch: writeToInflux accepts every point of the batch
WriteToInfluxOk ==
    /\ pc = "route"
    /\ influxHealthy
    /\ sink' = sink \cup Range(WrittenPrefix(telemetryData, 0))
    /\ hist' = EndCycle([hist EXCEPT !.cycle.routeBase = data,
                                     !.cycle.direct = TRUE,
                                     !.cycle.directAfterSync = hist.cycle.synced])
    /\ pc' = "rearm"
    /\ UNCHANGED <<constVars, addVars, readerVars, healthVars, dirVars, slackVars, clientVars, outside, tickerVars, monitorVars,
                   influxHealthy, LastPollTime, now,
                   cacheVars, telemetryData, syncVars, fetched>>

\* poll, healthy branch: WritePointDirectly fails at the j-th point; the sink
\* is marked unhealthy and cacheData stores the batch
WriteToInfluxFails ==
    /\ pc = "route"
    /\ influxHealthy
    /\ ~sinkReliable
    /\ \E j \in 1..Len(telemetryData), saveOk \in BOOLEAN :
         /\ sink' = sink \cup Range(WrittenPrefix(telemetryData, j))
         /\ data' = CacheAdd(data, ToDataPoints(telemetryData))
         /\ disk' = CacheSave(data', disk, saveOk)
         /\ hist' = EndCycle([hist EXCEPT !.cycle.routeBase = data,
                                          !.cycle.direct = TRUE,
                                          !.cycle.directAfterSync = hist.cycle.synced,
                                          !.cycle.writeFailedAt = j])
    /\ influxHealthy' = FALSE
    /\ pc' = "rearm"
    /\ UNCHANGED <<constVars, addVars, readerVars, healthVars, dirVars, slackVars, clientVars, outside, tickerVars, monitorVars,
                   LastPollTime, now, telemetryData,
                   syncVars, fetched>>

\* a variant: the batch is cached and also written to the sink directly
CacheWhileDown_writesToo ==
    /\ pc = "route"
    /\ ~influxHealthy
    /\ \E saveOk \in BOOLEAN :
         /\ data' = CacheAdd(data, ToDataPoints(telemetryData))
         /\ disk' = CacheSave(data', disk, saveOk)
    /\ sink' = sink \cup Range(telemetryData)
    /\ hist' = [hist EXCEPT !.cycle.routeBase = data]
    /\ pc' = "reconnect"
    /\ UNCHANGED <<constVars, addVars, readerVars, healthVars, dirVars, slackVars, clientVars, outside, tickerVars, monitorVars,
                   influxHealthy, LastPollTime, now,
                   telemetryData, syncVars, fetched>>

\* poll, unhealthy branch: cacheData stores the batch, then tryReconnectInflux
CacheWhileDown ==
    /\ pc = "route"
    /\ ~influxHealthy
    /\ \E saveOk \in BOOLEAN :
         /\ data' = CacheAdd(data, ToDataPoints(telemetryData))
         /\ disk' = CacheSave(data', disk, saveOk)
    /\ hist' = [hist EXCEPT !.cycle.routeBase = data]
    /\ pc' = "reconnect"
    /\ UNCHANGED <<constVars, addVars, readerVars, healthVars, dirVars, slackVars, clientVars, outside, tickerVars, monitorVars,
                   influxHealthy, LastPollTime, now,
                   sink, telemetryData, syncVars, fetched>>

\* tryReconnectInflux: backoff.Retry(CheckConnection) either succeeds within
\* ReconnectMaxElapsedTime (sink healthy, drain the cache) or gives up
TryReconnectInflux ==
    /\ pc = "reconnect"
    /\ IF influxClientNil
       THEN /\ pc' = "rearm"
            /\ hist' = EndCycle(hist)
            /\ UNCHANGED <<influxHealthy, syncRet>>
       ELSE \E reconnected \in ProbeOutcomes :
              IF reconnected
              THEN /\ influxHealthy' = TRUE
                   /\ hist' = [hist EXCEPT !.cycle.probes = Append(@, TRUE),
                                           !.cycle.recovered = TRUE]
                   /\ pc' = "sync"
                   /\ syncRet' = "rearm"
              ELSE /\ hist' = EndCycle([hist EXCEPT
                                          !.cycle.probes = Append(@, FALSE)])
                   /\ pc' = "rearm"
                   /\ UNCHANGED <<influxHealthy, syncRet>>
    /\ UNCHANGED <<constVars, addVars, readerVars, healthVars, dirVars, slackVars, clientVars, outside, tickerVars, monitorVars,
                   LastPollTime, now, cacheVars, sink,
                   telemetryData, cachedData, syncIdx, fetched>>

\* ------------------------------------------------------------- SyncCache
\* SyncCache entry: skip when the sink is unhealthy or the cache is empty,
\* else take the snapshot (Cache.GetAll)
SyncBegin ==
    /\ pc = "sync"
    /\ IF ~influxHealthy
       THEN /\ pc' = "syncReturn"
            /\ hist' = [hist EXCEPT !.drain = NoDrain]
            /\ UNCHANGED <<cachedData, syncIdx>>
       ELSE /\ cachedData' = CacheGetAll(data)
            /\ IF Len(cachedData') = 0
               THEN /\ pc' = "syncReturn"
                    /\ hist' = [hist EXCEPT !.drain = NoDrain]
                    /\ UNCHANGED syncIdx
               ELSE /\ pc' = "syncWrite"
                    /\ syncIdx' = 1
                    /\ hist' = [hist EXCEPT !.drain =
                                  [ran |-> TRUE, before |-> data,
                                   failedAt |-> 0, cleared |-> FALSE,
                                   added |-> <<>>, persisted |-> (disk = data),
                                   attempts |-> <<>>]]
    /\ UNCHANGED <<constVars, addVars, readerVars, healthVars, dirVars, slackVars, clientVars, outside, tickerVars, monitorVars,
                   influxHealthy, LastPollTime, now,
                   cacheVars, sink, telemetryData, syncRet, fetched>>

\* SyncCache loop body: WritePointDirectly(cachedData[syncIdx]) succeeds
SyncWriteOk ==
    /\ pc = "syncWrite"
    /\ sink' = sink \cup {cachedData[syncIdx]}
    /\ hist' = [hist EXCEPT !.drain.attempts = Append(@, cachedData[syncIdx])]
    /\ IF syncIdx = Len(cachedData)
       THEN pc' = "syncClear" /\ UNCHANGED syncIdx
       ELSE pc' = "syncWrite" /\ syncIdx' = syncIdx + 1
    /\ UNCHANGED <<constVars, addVars, readerVars, healthVars, dirVars, slackVars, clientVars, outside, tickerVars, monitorVars,
                   influxHealthy, LastPollTime, now,
                   cacheVars, telemetryData, cachedData, syncRet, fetched>>

\* a variant: a failed write is logged and the loop goes on to the next entry
SyncWriteFails_continues ==
    /\ pc = "syncWrite"
    /\ ~sinkReliable
    /\ hist' = [hist EXCEPT !.drain.failedAt = syncIdx,
                            !.drain.attempts = Append(@, cachedData[syncIdx])]
    /\ IF syncIdx = Len(cachedData)
       THEN pc' = "syncClear" /\ UNCHANGED syncIdx
       ELSE pc' = "syncWrite" /\ syncIdx' = syncIdx + 1
    /\ UNCHANGED <<constVars, addVars, readerVars, healthVars, dirVars, slackVars, clientVars, outside, tickerVars, monitorVars,
                   influxHealthy, LastPollTime, now,
                   cacheVars, sink, telemetryData, cachedData, syncRet, fetched>>

\* SyncCache loop body: WritePointDirectly fails; alert and return
SyncWriteFails ==
    /\ pc = "syncWrite"
    /\ ~sinkReliable
    /\ hist' = [hist EXCEPT !.drain.failedAt = syncIdx,
                            !.drain.attempts = Append(@, cachedData[syncIdx])]
    /\ pc' = "syncReturn"
    /\ UNCHANGED <<constVars, addVars, readerVars, healthVars, dirVars, slackVars, clientVars, outside, tickerVars, monitorVars,
                   influxHealthy, LastPollTime, now,
                   cacheVars, sink, telemetryData, syncVars, fetched>>

\* SyncCache after the loop: Flush, then Cache.Clear (which saves)
SyncClear ==
    /\ pc = "syncClear"
    /\ \E saveOk \in BOOLEAN :
         /\ data' = CacheClear(data)
         /\ disk' = CacheSave(data', disk, saveOk)
    /\ hist' = [hist EXCEPT !.drain.cleared = TRUE]
    /\ pc' = "syncReturn"
    /\ UNCHANGED <<constVars, addVars, readerVars, healthVars, dirVars, slackVars, clientVars, outside, tickerVars, monitorVars,
                   influxHealthy, LastPollTime, now,
                   sink, telemetryData, syncVars, fetched>>

\* SyncCache returns to its caller: main, checkInfluxHealth or
\* tryReconnectInflux (the last statement of poll, so on to Run's Reset)
SyncReturn ==
    /\ pc = "syncReturn"
    /\ pc' = syncRet
    /\ LET h == [hist EXCEPT !.cycle.synced = TRUE]
       IN  hist' = IF syncRet = "rearm" THEN EndCycle(h) ELSE h
    /\ UNCHANGED <<constVars, addVars, readerVars, healthVars, dirVars, slackVars, clientVars, outside, tickerVars, monitorVars,
                   influxHealthy, LastPollTime, now,
                   cacheVars, sink, telemetryData, syncVars, fetched>>

Next ==
    \/ Startup
    \/ StartLoops
    \/ TickerFires
    \/ RearmTicker
    \/ PollFetchFails
    \/ PollFetchSucceeds
    \/ CheckInfluxHealth
    \/ WriteToInfluxOk
    \/ WriteToInfluxFails
    \/ CacheWhileDown
    \/ TryReconnectInflux
    \/ SyncBegin
    \/ SyncWriteOk
    \/ SyncWriteFails
    \/ SyncClear
    \/ SyncReturn

Spec == Init /\ [][Next]_vars

\* -------------------------------------------------------------- shutdown
\* main: if cfg.CacheCleanupEnabled { go appMonitor.RunCacheCleanup(stopChan) },
\* right after Run was started; when the step is not taken the cleanup is
\* disabled
StartCacheCleanup ==
    /\ mainPc = "running"
    /\ cleanupPc = "off"
    /\ stopChan = "open"
    /\ pc = "idle" /\ now = 0 /\ ~tickPending
    /\ cleanupPc' = "cleanup"
    /\ UNCHANGED <<constVars, addVars, readerVars, healthVars, dirVars, slackVars, clientVars, sinkReliable, stopChan, mainPc, tickerVars,
                   monitorVars, influxHealthy, LastPollTime, now, cacheVars,
                   sink, pc, telemetryData, syncVars, fetched, hist>>

\* RunCacheCleanup: m.cleanupCache(), at startup and after each tick of its
\* own ticker; Cache.CleanupOldFiles leaves Cache.data alone and the snapshot
\* file written last is younger than the retention period
CleanupCacheRuns ==
    /\ cleanupPc = "cleanup"
    /\ cleanupPc' = "select"
    /\ UNCHANGED <<constVars, addVars, readerVars, healthVars, dirVars, slackVars, clientVars, sinkReliable, stopChan, mainPc, tickerVars,
                   monitorVars, influxHealthy, LastPollTime, now, cacheVars,
                   sink, pc, telemetryData, syncVars, fetched, hist>>

\* RunCacheCleanup: select takes a tick of the cleanup ticker
CleanupTick ==
    /\ cleanupPc = "select"
    /\ cleanupPc' = "cleanup"
    /\ UNCHANGED <<constVars, addVars, readerVars, healthVars, dirVars, slackVars, clientVars, sinkReliable, stopChan, mainPc, tickerVars,
                   monitorVars, influxHealthy, LastPollTime, now, cacheVars,
                   sink, pc, telemetryData, syncVars, fetched, hist>>

\* RunCacheCleanup: select takes <-stopChan; return
CleanupReturns ==
    /\ cleanupPc = "select"
    /\ stopChan = "closed"
    /\ cleanupPc' = "returned"
    /\ UNCHANGED <<constVars, addVars, readerVars, healthVars, dirVars, slackVars, clientVars, sinkReliable, stopChan, mainPc, tickerVars,
                   monitorVars, influxHealthy, LastPollTime, now, cacheVars,
                   sink, pc, telemetryData, syncVars, fetched, hist>>

\* main: <-sigChan, close(stopChan), then wait for the goroutines
StopSignal ==
    /\ mainPc = "running"
    /\ stopChan' = "closed"
    /\ mainPc' = "waiting"
    /\ hist' = [hist EXCEPT !.stopInFlight = (pc # "idle")]
    /\ UNCHANGED <<constVars, addVars, readerVars, healthVars, dirVars, slackVars, clientVars, sinkReliable, cleanupPc, tickerVars, monitorVars,
                   influxHealthy, LastPollTime, now, cacheVars, sink, pc,
                   telemetryData, syncVars, fetched>>

\* Run: select takes <-stopChan; return (ticker.Stop is deferred)
RunReturns ==
    /\ pc = "idle"
    /\ stopChan = "closed"
    /\ pc' = "returned"
    /\ UNCHANGED <<constVars, addVars, readerVars, healthVars, dirVars, slackVars, clientVars, outside, tickerVars, monitorVars, influxHealthy,
                   LastPollTime, now, cacheVars, sink, telemetryData, syncVars,
                   fetched, hist>>

\* Run keeps polling after the clock reading has reached its cap: the window
\* [LastPollTime, now] no longer moves and GetTelemetry returns an empty
\* batch (poll, err == nil, len(telemetryData) == 0); the outage bookkeeping
\* is closed
PollAgainEmpty ==
    /\ pc = "idle"
    /\ tickPending
    /\ now = MaxCycles
    /\ tickPending' = FALSE
    /\ telemetryData' = <<>>
    /\ hist' = [hist EXCEPT !.cycle = [CycleStart(TRUE, 0) EXCEPT !.end = now],
                            !.drain = NoDrain,
                            !.failStreak = 0,
                            !.hadOk = @ \/ hist.cycle.fetchOk,
                            !.prevOkEnd = IF hist.cycle.fetchOk
                                          THEN hist.cycle.end ELSE @,
                            !.inOutage = FALSE, !.outageBase = <<>>,
                            !.outageFrom = 0, !.outageSizes = <<>>]
    /\ pc' = "rearm"
    /\ LET st == FetchSucceeded(MonitorState) IN
         /\ consecutiveErr' = st.consecutiveErr
         /\ degradedMode' = st.degradedMode
         /\ backoffFactor' = st.backoffFactor
    /\ LastPollTime' = LastPollTimeAfter(TRUE, LastPollTime, now)
    /\ UNCHANGED <<constVars, addVars, readerVars, healthVars, dirVars, slackVars, clientVars, outside, tickerPeriod, influxHealthy, now,
                   cacheVars, sink, syncVars, fetched>>

\* variant: the WaitGroup counts the poll loop only
WaitGroupDone_runOnly(runPc, clPc) == runPc = "returned"

\* main: wg.Wait() returns once every started goroutine has called wg.Done()
WaitGroupDone(runPc, clPc) ==
    runPc = "returned" /\ clPc \in {"off", "returned"}

\* main: select takes <-shutdownComplete ("All services stopped gracefully")
MainShutdownComplete ==
    /\ mainPc = "waiting"
    /\ WaitGroupDone(pc, cleanupPc)
    /\ mainPc' = "stopped"
    /\ UNCHANGED <<constVars, addVars, readerVars, healthVars, dirVars, slackVars, clientVars, sinkReliable, stopChan, cleanupPc, tickerVars,
                   monitorVars, influxHealthy, LastPollTime, now, cacheVars,
                   sink, pc, telemetryData, syncVars, fetched, hist>>

\* main: select takes <-time.After(cfg.ShutdownTimeout) ("Shutdown timed out")
MainShutdownTimeout ==
    /\ mainPc = "waiting"
    /\ mainPc' = "timedOut"
    /\ UNCHANGED <<constVars, addVars, readerVars, healthVars, dirVars, slackVars, clientVars, sinkReliable, stopChan, cleanupPc, tickerVars,
                   monitorVars, influxHealthy, LastPollTime, now, cacheVars,
                   sink, pc, telemetryData, syncVars, fetched, hist>>

NextShutdown ==
    \/ Next
    \/ PollAgainEmpty
    \/ StartCacheCleanup
    \/ CleanupCacheRuns
    \/ CleanupTick
    \/ CleanupReturns
    \/ StopSignal
    \/ RunReturns
    \/ MainShutdownComplete
    \/ MainShutdownTimeout

\* The shutdown is followed from the start with an empty cache, a sink client
\* and the lowest threshold.
InitShutdown ==
    /\ Init
    /\ cfg.ConsecutiveErrorThreshold = 1
    /\ cfg.MaxBackoffFactor = MaxBackoffCap
    /\ ~influxClientNil
    /\ data = <<>>

\* Both goroutines are scheduled whenever they can take a step (weak
\* fairness).  At a select with a tick and the closed stopChan both ready Go
\* chooses among the ready cases at random, so the stop case is not passed
\* over for ever (strong fairness of the two returns).
SpecShutdown ==
    /\ InitShutdown /\ [][NextShutdown]_vars
    /\ WF_vars(Next \/ PollAgainEmpty)
    /\ WF_vars(CleanupCacheRuns)
    /\ SF_vars(RunReturns)
    /\ SF_vars(CleanupReturns)

\* ------------------------------------------------- the sink stays reachable
\* InfluxDB comes up and stays up: from here on CheckConnection and
\* WritePointDirectly succeed
SinkBecomesReliable ==
    /\ ~sinkReliable
    /\ sinkReliable' = TRUE
    /\ UNCHANGED <<constVars, addVars, readerVars, healthVars, dirVars, slackVars, clientVars, stopChan, cleanupPc, mainPc, tickerVars,
                   monitorVars, influxHealthy, LastPollTime, now, cacheVars,
                   sink, pc, telemetryData, syncVars, fetched, hist>>

\* Run keeps polling after the clock reading has reached its cap: the window
\* [LastPollTime, now] no longer moves and GetTelemetry hands out the m latest
\* measurements again (poll, err == nil, len(telemetryData) > 0)
PollAgain ==
    /\ pc = "idle"
    /\ tickPending
    /\ now = MaxCycles
    /\ tickPending' = FALSE
    /\ sinkReliable
    /\ ~influxClientNil
    /\ \E m \in 1..Min(MaxBatch, fetched) :
         /\ telemetryData' = Fresh(fetched - m, m)
         /\ hist' = [hist EXCEPT !.cycle = [CycleStart(TRUE, m) EXCEPT
                                              !.firstId = fetched - m,
                                              !.end = now],
                                 !.drain = NoDrain,
                                 !.failStreak = 0,
                                 !.hadOk = @ \/ hist.cycle.fetchOk,
                                 !.prevOkEnd = IF hist.cycle.fetchOk
                                               THEN hist.cycle.end ELSE @]
    /\ pc' = "check"
    /\ LET st == FetchSucceeded(MonitorState) IN
         /\ consecutiveErr' = st.consecutiveErr
         /\ degradedMode' = st.degradedMode
         /\ backoffFactor' = st.backoffFactor
    /\ LastPollTime' = LastPollTimeAfter(TRUE, LastPollTime, now)
    /\ UNCHANGED <<constVars, addVars, readerVars, healthVars, dirVars, slackVars, clientVars, outside, tickerPeriod, influxHealthy, now,
                   cacheVars, sink, syncVars, fetched>>

\* Run keeps polling without a sink client after the clock reading has
\* reached its cap, with empty batches (a non-empty batch would be appended
\* to the cache)
PollAgainNoClient == influxClientNil /\ PollAgainEmpty

NextLive == Next \/ SinkBecomesReliable \/ PollAgain \/ PollAgainNoClient

\* The poll goroutine is scheduled whenever it can take a step and the ticker
\* keeps firing; nothing is assumed about when the sink becomes reliable.
SpecLive ==
    Init /\ [][NextLive]_vars /\ WF_vars(Next \/ PollAgain \/ PollAgainNoClient)

\* ------------------------------------------------- crash during a drain
\* The process dies while SyncCache is between Cache.GetAll and its return
\* and is started again on the same cache directory: NewCache loads the
\* snapshot file and monitor.New resets the monitor.  A crash inside
\* Cache.Clear's os.WriteFile leaves the old file or a truncated one, which
\* loads as an empty cache.  InfluxDB keeps what it has stored.  The new
\* process is in the state Init describes, with the reloaded cache; its run
\* is not followed further (pc = "restarted").
CrashDuringDrain ==
    /\ pc \in {"syncWrite", "syncClear"}
    /\ ~hist.crashed
    /\ disk' \in IF pc = "syncClear" THEN {disk, <<>>} ELSE {disk}
    /\ data' = CacheLoad(disk')
    /\ influxClientNil' \in BOOLEAN
    /\ influxHealthy' = ~influxClientNil'
    /\ consecutiveErr' = 0
    /\ degradedMode' = FALSE
    /\ backoffFactor' = 1
    /\ LastPollTime' = now - 1
    /\ pc' = "restarted"
    /\ telemetryData' = <<>>
    /\ cachedData' = <<>>
    /\ syncIdx' = 0
    /\ syncRet' = "idle"
    /\ tickPending' = FALSE
    /\ tickerPeriod' = 1
    /\ mainPc' = "startup"
    /\ hist' = [hist EXCEPT !.crashed = TRUE, !.crashDrain = hist.drain,
                            !.drain = NoDrain, !.failStreak = 0,
                            !.inOutage = FALSE, !.outageBase = <<>>,
                            !.outageFrom = 0, !.outageSizes = <<>>]
    /\ UNCHANGED <<cfg, addVars, readerVars, healthVars, dirVars, slackVars, clientVars, sinkReliable, stopChan, cleanupPc, now, sink,
                   fetched>>

NextCrash == Next \/ CrashDuringDrain

\* the monitor, killed in the middle of a drain and restarted
SpecCrash == Init /\ [][NextCrash]_vars

\* ------------------------------------------- a second caller of Cache.Add
\* Cache.Add called by another goroutine while SyncCache is between its
\* Cache.GetAll and its Cache.Clear (Cache.mu is released in between)
ConcurrentAdd ==
    /\ pc \in {"syncWrite", "syncClear"}
    /\ Len(hist.drain.added) < MaxConcurrentAdds
    /\ \E saveOk \in BOOLEAN :
         /\ data' = CacheAdd(data, Fresh(fetched, 1))
         /\ disk' = CacheSave(data', disk, saveOk)
    /\ fetched' = fetched + 1
    /\ hist' = [hist EXCEPT !.drain.added = @ \o Fresh(fetched, 1)]
    /\ UNCHANGED <<constVars, addVars, readerVars, healthVars, dirVars, slackVars, clientVars, outside, tickerVars, monitorVars,
                   influxHealthy, LastPollTime, now,
                   sink, pc, telemetryData, syncVars>>

NextConcurrent == Next \/ ConcurrentAdd

\* the poll goroutine together with a second caller of Cache.Add
SpecConcurrent == Init /\ [][NextConcurrent]_vars

\* ---- the source client: GetTelemetry behind its circuit breaker ----

\* Settings.MaxRequests: calls let through while half-open
cbMaxRequests == 3

\* Settings.ReadyToTrip. The float comparison failures/requests >= 0.6 is the
\* integer comparison 10 * failures >= 6 * requests: the quotient of two small
\* integers is the correctly rounded double, which for 3/5 is the literal 0.6.
ReadyToTrip_noMinimum(counts) ==
    10 * counts.TotalFailures >= 6 * counts.Requests

ReadyToTrip(counts) ==
    /\ counts.Requests >= 3
    /\ 10 * counts.TotalFailures >= 6 * counts.Requests

\* gobreaker: setState to another state / expiry of the closed Interval
toNewGeneration(b, st) ==
    [state |-> st, generation |-> b.generation + 1, counts |-> NoCounts]

\* gobreaker Counts.onSuccess / Counts.onFailure
onSuccess_noConsecutive(c) ==
    [c EXCEPT !.TotalSuccesses = @ + 1, !.ConsecutiveFailures = 0]

onSuccess(c) ==
    [c EXCEPT !.TotalSuccesses = @ + 1, !.ConsecutiveSuccesses = @ + 1,
              !.ConsecutiveFailures = 0]

onFailure(c) ==
    [c EXCEPT !.TotalFailures = @ + 1, !.ConsecutiveFailures = @ + 1,
              !.ConsecutiveSuccesses = 0]

\* the error operation() hands to backoff.Retry: every failure is wrapped with
\* fmt.Errorf("failed to get telemetry: %w", err), none with backoff.Permanent
OperationError(outcome) == [cause |-> outcome, permanent |-> FALSE]

\* backoff.Retry: errors.As(err, &permanent) ends the loop at once
RetryStopsOn(e) == e.permanent

\* gobreaker beforeRequest: the error Execute returns without running the
\* request ("nil": the request is let through and counted)
beforeRequest_openLetsThrough(b) ==
    IF b.state = "half-open" /\ b.counts.Requests >= cbMaxRequests
    THEN "tooMany"
    ELSE "nil"

beforeRequest(b) ==
    IF b.state = "open" THEN "open"
    ELSE IF b.state = "half-open" /\ b.counts.Requests >= cbMaxRequests
    THEN "tooMany"
    ELSE "nil"

\* GetTelemetry with a token and a meter GUID: circuitBreaker.Execute runs
\* beforeRequest, which refuses the call while open (or while half-open with
\* MaxRequests calls in flight) and otherwise counts the request.
GetTelemetryBegin ==
    /\ call.pc = "none"
    /\ cb.counts.Requests < MaxWindowRequests
    /\ LET refused == beforeRequest(cb)
           c == [call EXCEPT !.attempts = 0, !.sawPermanent = FALSE,
                             !.afterPermanent = 0, !.err = refused,
                             !.stateAtBegin = cb.state]
       IN  IF refused # "nil"
           THEN /\ call' = c
                /\ cb' = cb
           ELSE /\ cb' = [cb EXCEPT !.counts.Requests = @ + 1]
                /\ call' = [c EXCEPT !.pc = "attempt",
                                     !.generation = cb.generation]
    /\ UNCHANGED <<constVars, addVars, readerVars, healthVars, dirVars, slackVars, outside, tickerVars, monitorVars, influxHealthy,
                   LastPollTime, now, cacheVars, sink, pc, telemetryData,
                   syncVars, fetched, hist>>

\* fetchTelemetryWithRetry: one run of operation() inside backoff.Retry
FetchAttempt ==
    /\ call.pc = "attempt"
    /\ \E outcome \in {"ok", "transient", "permanent"} :
         LET e == OperationError(outcome)
             c == [call EXCEPT !.attempts = @ + 1,
                               !.afterPermanent =
                                   IF call.sawPermanent THEN @ + 1 ELSE @,
                               !.sawPermanent = @ \/ outcome = "permanent"]
         IN  call' = IF outcome = "ok"
                     THEN [c EXCEPT !.pc = "after", !.err = "nil"]
                     ELSE IF RetryStopsOn(e)
                     THEN [c EXCEPT !.pc = "after", !.err = e.cause]
                     ELSE [c EXCEPT !.pc = "backoff", !.err = e.cause]
    /\ UNCHANGED <<constVars, addVars, readerVars, healthVars, dirVars, slackVars, cb, outside, tickerVars, monitorVars, influxHealthy,
                   LastPollTime, now, cacheVars, sink, pc, telemetryData,
                   syncVars, fetched, hist>>

\* backoff.Retry after a failed attempt: NextBackOff gives a delay while the
\* 30 s of MaxElapsedTime are not used up (and ctx is not done), else Stop
RetryNextBackOff ==
    /\ call.pc = "backoff"
    /\ \E budgetLeft \in BOOLEAN :
         /\ budgetLeft => call.attempts < MaxAttempts
         /\ call' = [call EXCEPT !.pc = IF budgetLeft THEN "attempt" ELSE "after"]
    /\ UNCHANGED <<constVars, addVars, readerVars, healthVars, dirVars, slackVars, cb, outside, tickerVars, monitorVars, influxHealthy,
                   LastPollTime, now, cacheVars, sink, pc, telemetryData,
                   syncVars, fetched, hist>>

\* circuitBreaker.Execute: afterRequest. A result of an earlier generation is
\* ignored; a failure while closed is counted and ReadyToTrip decides; while
\* half-open a failure reopens and MaxRequests successes in a row close.
AfterRequest ==
    /\ call.pc = "after"
    /\ LET success == call.err = "nil"
           counted == call.generation = cb.generation
           c2 == IF ~counted THEN cb.counts
                 ELSE IF success THEN onSuccess(cb.counts)
                 ELSE onFailure(cb.counts)
           b2 == IF ~counted THEN cb
                 ELSE IF cb.state = "closed"
                 THEN IF ~success /\ ReadyToTrip(c2)
                      THEN toNewGeneration(cb, "open")
                      ELSE [cb EXCEPT !.counts = c2]
                 ELSE IF cb.state = "half-open"
                 THEN IF ~success THEN toNewGeneration(cb, "open")
                      ELSE IF c2.ConsecutiveSuccesses >= cbMaxRequests
                      THEN toNewGeneration(cb, "closed")
                      ELSE [cb EXCEPT !.counts = c2]
                 ELSE cb
       IN  /\ cb' = b2
           /\ call' = [call EXCEPT !.pc = "none",
                                   !.last = [stateBefore |-> cb.state,
                                             stateAfter |-> b2.state,
                                             failed |-> ~success,
                                             counts |-> c2]]
    /\ UNCHANGED <<constVars, addVars, readerVars, healthVars, dirVars, slackVars, outside, tickerVars, monitorVars, influxHealthy,
                   LastPollTime, now, cacheVars, sink, pc, telemetryData,
                   syncVars, fetched, hist>>

\* gobreaker currentState, closed: the Interval (60 s) has passed, the counts
\* are cleared and a new generation starts
IntervalExpires ==
    /\ cb.state = "closed"
    /\ cb.generation < MaxGenerations
    /\ cb' = toNewGeneration(cb, "closed")
    /\ UNCHANGED <<constVars, addVars, readerVars, healthVars, dirVars, slackVars, call, outside, tickerVars, monitorVars,
                   influxHealthy, LastPollTime, now, cacheVars, sink, pc,
                   telemetryData, syncVars, fetched, hist>>

\* gobreaker currentState, open: the Timeout (60 s) has passed, half-open
TimeoutExpires ==
    /\ cb.state = "open"
    /\ cb.generation < MaxGenerations
    /\ cb' = toNewGeneration(cb, "half-open")
    /\ UNCHANGED <<constVars, addVars, readerVars, healthVars, dirVars, slackVars, call, outside, tickerVars, monitorVars,
                   influxHealthy, LastPollTime, now, cacheVars, sink, pc,
                   telemetryData, syncVars, fetched, hist>>

NextClient ==
    \/ GetTelemetryBegin
    \/ FetchAttempt
    \/ RetryNextBackOff
    \/ AfterRequest
    \/ IntervalExpires
    \/ TimeoutExpires

\* the calls of one goroutine (poll) on the source client
SpecClient == Init /\ [][NextClient]_vars

\* ---- poll on top of the source client ----
\* poll calls GetTelemetry and looks at nothing but err != nil; the error is
\* the breaker's refusal (ErrOpenState, ErrTooManyRequests) or what
\* fetchTelemetryWithRetry returned through Execute.

\* a variant: a refusal by the breaker is not taken for a failed fetch
FetchErrored_notRefusals(err) == err \notin {"nil", "open", "tooMany"}

\* poll: if err != nil
FetchErrored(err) == err # "nil"

\* poll: m.OctopusClient.GetTelemetry(ctx, start, end), up to the breaker's
\* beforeRequest
PollCallsGetTelemetry ==
    /\ pollStep = "fetch"
    /\ call.pc = "none"
    /\ cb.counts.Requests < MaxWindowRequests
    /\ consecutiveErr < MaxThreshold + MaxBackoffCap
    /\ LET refused == beforeRequest(cb)
           c == [call EXCEPT !.attempts = 0, !.sawPermanent = FALSE,
                             !.afterPermanent = 0, !.err = refused,
                             !.stateAtBegin = cb.state]
       IN  IF refused # "nil"
           THEN /\ call' = c
                /\ cb' = cb
           ELSE /\ cb' = [cb EXCEPT !.counts.Requests = @ + 1]
                /\ call' = [c EXCEPT !.pc = "attempt",
                                     !.generation = cb.generation]
    /\ pollStep' = "fetching"
    /\ UNCHANGED <<constVars, addVars, healthVars, dirVars, slackVars, outside,
                   tickerVars, monitorVars, influxHealthy, LastPollTime, now,
                   cacheVars, sink, pc, telemetryData, syncVars, fetched,
                   hist, reader>>

\* poll after GetTelemetry has returned: the err != nil branch or the
\* degraded-mode reset of the success path
PollHandlesFetchResult ==
    /\ pollStep = "fetching"
    /\ call.pc = "none"
    /\ LET st == IF FetchErrored(call.err)
                 THEN FetchFailed(MonitorState, cfg)
                 ELSE FetchSucceeded(MonitorState)
       IN  /\ consecutiveErr' = st.consecutiveErr
           /\ degradedMode' = st.degradedMode
           /\ backoffFactor' = st.backoffFactor
    /\ pollStep' = "fetch"
    /\ UNCHANGED <<constVars, addVars, healthVars, dirVars, slackVars, clientVars,
                   outside, tickerVars, influxHealthy, LastPollTime, now,
                   cacheVars, sink, pc, telemetryData, syncVars, fetched,
                   hist, reader>>

NextPollFetch ==
    \/ PollCallsGetTelemetry
    \/ FetchAttempt
    \/ RetryNextBackOff
    \/ AfterRequest
    \/ IntervalExpires
    \/ TimeoutExpires
    \/ PollHandlesFetchResult

\* construction with a sink client and an empty cache directory; neither
\* plays a part in the fetch
InitPollFetch == Init /\ ~influxClientNil /\ data = <<>>

\* the fetch of successive poll cycles
SpecPollFetch == InitPollFetch /\ [][NextPollFetch]_vars

\* ---- the live write to the sink ----
\* influx.Client has a breaker with the settings of the source client's
\* (MaxRequests 3, ReadyToTrip on 3 requests and 60 % failures); cb and call
\* stand for it and for one WritePointDirectly here.  The life of the monitor
\* is followed up to the moment the sink is marked unhealthy; one failure
\* does not open the breaker, so it stays closed throughout.

\* writeToInflux: m.InfluxClient.WritePointDirectly(ctx, dp), up to the
\* breaker's beforeRequest
WritePointDirectlyBegin ==
    /\ pollStep = "fetch"
    /\ influxHealthy
    /\ call.pc = "none"
    /\ cb.counts.Requests < MaxWindowRequests
    /\ fetched < MaxCachePoints
    /\ LET refused == beforeRequest(cb)
           c == [call EXCEPT !.attempts = 0, !.sawPermanent = FALSE,
                             !.afterPermanent = 0, !.err = refused,
                             !.stateAtBegin = cb.state]
       IN  IF refused # "nil"
           THEN /\ call' = c
                /\ cb' = cb
           ELSE /\ cb' = [cb EXCEPT !.counts.Requests = @ + 1]
                /\ call' = [c EXCEPT !.pc = "attempt",
                                     !.generation = cb.generation]
    /\ pollStep' = "writing"
    /\ UNCHANGED <<constVars, addVars, healthVars, dirVars, slackVars, outside,
                   tickerVars, monitorVars, influxHealthy, LastPollTime, now,
                   cacheVars, sink, pc, telemetryData, syncVars, fetched,
                   hist, reader>>

\* the function handed to Execute: writeAPIBlocking.WritePoint, run once;
\* its error is what Execute returns
WritePointAttempt ==
    /\ pollStep = "writing"
    /\ call.pc = "attempt"
    /\ \E outcome \in {"ok", "transient", "permanent"} :
         call' = [call EXCEPT !.attempts = @ + 1,
                              !.pc = "after",
                              !.err = IF outcome = "ok" THEN "nil" ELSE outcome]
    /\ UNCHANGED <<constVars, addVars, readerVars, healthVars, dirVars, slackVars, cb,
                   outside, tickerVars, monitorVars, influxHealthy,
                   LastPollTime, now, cacheVars, sink, pc, telemetryData,
                   syncVars, fetched, hist>>

\* poll after writeToInflux has returned: on an error setInfluxHealthy(false)
\* and cacheData, else the point is in the sink
PollHandlesWriteResult ==
    /\ pollStep = "writing"
    /\ call.pc = "none"
    /\ IF call.err # "nil"
       THEN /\ influxHealthy' = FALSE
            /\ \E saveOk \in BOOLEAN :
                 /\ data' = CacheAdd(data, ToDataPoints(Fresh(fetched, 1)))
                 /\ disk' = CacheSave(data', disk, saveOk)
            /\ UNCHANGED sink
       ELSE /\ sink' = sink \cup Range(Fresh(fetched, 1))
            /\ UNCHANGED <<influxHealthy, cacheVars>>
    /\ fetched' = fetched + 1
    /\ pollStep' = "fetch"
    /\ UNCHANGED <<constVars, addVars, healthVars, dirVars, slackVars, clientVars,
                   outside, tickerVars, monitorVars, LastPollTime, now, pc,
                   telemetryData, syncVars, hist, reader>>

NextSinkWrite ==
    \/ WritePointDirectlyBegin
    \/ WritePointAttempt
    \/ AfterRequest
    \/ IntervalExpires
    \/ PollHandlesWriteResult

\* a monitor constructed with a sink client
InitSinkWrite == Init /\ ~influxClientNil

\* direct writes of successive cycles until one fails
SpecSinkWrite == InitSinkWrite /\ [][NextSinkWrite]_vars

\* ---- Notifier.send: the webhook call behind the notifier's breaker ----
\* The notifier's breaker has the settings of the source client's; cb and
\* call stand for it and for one Notifier.send here.

\* what the webhook can answer; err: httpClient.Post returned an error
StatusCodes == {200, 204, 301, 400, 404, 429, 499, 500, 503}
Responses ==
    {[err |-> TRUE, StatusCode |-> 0]}
        \cup {[err |-> FALSE, StatusCode |-> c] : c \in StatusCodes}

\* a variant: no status is wrapped in backoff.Permanent
sendOperation_noPermanent(resp) ==
    IF resp.err
    THEN [cause |-> "failed to send message to Slack", permanent |-> FALSE]
    ELSE IF resp.StatusCode # 200
    THEN [cause |-> "slack returned server error status", permanent |-> FALSE]
    ELSE [cause |-> "nil", permanent |-> FALSE]

\* operation() of sendWithRetry: the error it returns for a response
sendOperation(resp) ==
    IF resp.err
    THEN [cause |-> "failed to send message to Slack", permanent |-> FALSE]
    ELSE IF resp.StatusCode # 200
    THEN IF resp.StatusCode >= 400 /\ resp.StatusCode < 500
         THEN [cause |-> "slack returned client error status",
               permanent |-> TRUE]
         ELSE [cause |-> "slack returned server error status",
               permanent |-> FALSE]
    ELSE [cause |-> "nil", permanent |-> FALSE]

\* Notifier.send: circuitBreaker.Execute up to beforeRequest
NotifierSendBegin ==
    /\ call.pc = "none"
    /\ cb.counts.Requests < MaxWindowRequests
    /\ LET refused == beforeRequest(cb)
           c == [call EXCEPT !.attempts = 0, !.sawPermanent = FALSE,
                             !.afterPermanent = 0, !.err = refused,
                             !.stateAtBegin = cb.state, !.status = 0]
       IN  IF refused # "nil"
           THEN /\ call' = c
                /\ cb' = cb
           ELSE /\ cb' = [cb EXCEPT !.counts.Requests = @ + 1]
                /\ call' = [c EXCEPT !.pc = "attempt",
                                     !.generation = cb.generation]
    /\ UNCHANGED <<constVars, addVars, readerVars, healthVars, dirVars, slackVars,
                   outside, tickerVars, monitorVars, influxHealthy,
                   LastPollTime, now, cacheVars, sink, pc, telemetryData,
                   syncVars, fetched, hist>>

\* sendWithRetry: one run of operation() inside backoff.Retry; nil ends the
\* loop, a PermanentError ends it with the wrapped error, any other error
\* goes on to NextBackOff
NotifierPost ==
    /\ call.pc = "attempt"
    /\ \E resp \in Responses :
         LET e == sendOperation(resp)
             c == [call EXCEPT
                      !.attempts = @ + 1,
                      !.status = resp.StatusCode,
                      !.afterPermanent = IF call.sawPermanent THEN @ + 1 ELSE @,
                      !.sawPermanent = @ \/ (~resp.err /\ resp.StatusCode >= 400
                                                /\ resp.StatusCode < 500),
                      !.err = e.cause]
         IN  call' = IF e.cause = "nil" \/ e.permanent
                     THEN [c EXCEPT !.pc = "after"]
                     ELSE [c EXCEPT !.pc = "backoff"]
    /\ UNCHANGED <<constVars, addVars, readerVars, healthVars, dirVars, slackVars, cb,
                   outside, tickerVars, monitorVars, influxHealthy,
                   LastPollTime, now, cacheVars, sink, pc, telemetryData,
                   syncVars, fetched, hist>>

NextSend ==
    \/ NotifierSendBegin
    \/ NotifierPost
    \/ RetryNextBackOff
    \/ AfterRequest
    \/ IntervalExpires
    \/ TimeoutExpires

\* a monitor with a notifier, a sink client and an empty cache directory
InitSend == InitWith(TRUE) /\ ~influxClientNil /\ data = <<>>

\* the notifications sent one after the other
SpecSend == InitSend /\ [][NextSend]_vars

\* ---- the notifications of entering and leaving degraded mode ----
\* hist.notes is the sequence of the two notifications poll has handed to the
\* notifier: "entered" (SendSlackError, "Entering degraded mode ...") and
\* "recovered" (SendSlackInfo, "Recovered from degraded mode ...").

\* a variant: every failed fetch at or above the threshold is announced
DegradedNotification_everyFailure(st, c, fetchOk) ==
    IF fetchOk
    THEN IF st.degradedMode THEN <<"recovered">> ELSE <<>>
    ELSE IF st.consecutiveErr + 1 >= c.ConsecutiveErrorThreshold
         THEN <<"entered">>
         ELSE <<>>

\* poll: what it sends in a cycle that found the monitor in state st
DegradedNotification(st, c, fetchOk) ==
    IF fetchOk
    THEN IF st.degradedMode THEN <<"recovered">> ELSE <<>>
    ELSE IF st.consecutiveErr + 1 >= c.ConsecutiveErrorThreshold
            /\ ~st.degradedMode
         THEN <<"entered">>
         ELSE <<>>

\* poll, as far as the degraded-mode state and its notifications go
PollNotifiesDegraded ==
    /\ pollStep = "fetch"
    /\ \E fetchOk \in BOOLEAN :
         LET st == IF fetchOk THEN FetchSucceeded(MonitorState)
                   ELSE FetchFailed(MonitorState, cfg)
             sent == DegradedNotification(MonitorState, cfg, fetchOk)
         IN  /\ ~fetchOk => consecutiveErr < MaxThreshold + MaxBackoffCap
             /\ Len(hist.notes) + Len(sent) <= MaxNotes
             /\ consecutiveErr' = st.consecutiveErr
             /\ degradedMode' = st.degradedMode
             /\ backoffFactor' = st.backoffFactor
             /\ hist' = [hist EXCEPT !.notes = @ \o sent,
                                     !.cycle.fetchOk = fetchOk]
    /\ UNCHANGED <<constVars, addVars, readerVars, healthVars, dirVars, slackVars,
                   clientVars, outside, tickerVars, influxHealthy,
                   LastPollTime, now, cacheVars, sink, pc, telemetryData,
                   syncVars, fetched>>

NextDegraded == PollNotifiesDegraded

\* a monitor with a notifier
InitDegraded == InitWith(TRUE)

\* the fetches of successive poll cycles
SpecDegraded == InitDegraded /\ [][NextDegraded]_vars

\* ---- notifications ----

\* results of Monitor.SendSlackError / SendSlackWarning / SendSlackInfo: nothing
\* is sent without a notifier; Notifier.send returns nil, the error of
\* sendWithRetry, or the error of the open circuit breaker
NotifyOutcomes(enabled) ==
    IF enabled THEN {"sent", "failed", "breakerOpen"} ELSE {"disabled"}

\* a notification that, when it fails, marks the sink unhealthy
SendSlack_failureMarksUnhealthy ==
    /\ pc \notin {"idle", "main", "returned", "restarted"}
    /\ \E kind \in {"error", "warning", "info"},
          outcome \in NotifyOutcomes(slack.enabled) :
         /\ slack' = [slack EXCEPT !.last = <<kind, outcome>>]
         /\ influxHealthy' = (influxHealthy /\ outcome # "failed")
    /\ UNCHANGED <<constVars, addVars, readerVars, healthVars, dirVars, clientVars, outside, tickerVars, monitorVars,
                   LastPollTime, now, cacheVars, sink, pc, telemetryData,
                   syncVars, fetched, hist>>

\* Monitor.SendSlackError / SendSlackWarning / SendSlackInfo, called
\* synchronously by main at start-up and by poll, checkInfluxHealth,
\* tryReconnectInflux, cacheData and SyncCache; taken here at any point of the
\* start-up, of a cycle or of a drain.  The error of the notifier is logged.
SendSlack ==
    /\ pc \notin {"idle", "main", "returned", "restarted"}
    /\ \E kind \in {"error", "warning", "info"},
          outcome \in NotifyOutcomes(slack.enabled) :
         slack' = [slack EXCEPT !.last = <<kind, outcome>>]
    /\ UNCHANGED <<constVars, addVars, readerVars, healthVars, dirVars, clientVars, outside, tickerVars, monitorVars,
                   influxHealthy, LastPollTime, now, cacheVars, sink, pc,
                   telemetryData, syncVars, fetched, hist>>

NextNotify == Next \/ SendSlack

\* start-up with or without a notifier, an empty cache, a sink client and the
\* lowest threshold
InitNotify ==
    /\ \E slackEnabled \in BOOLEAN : InitWith(slackEnabled)
    /\ cfg.ConsecutiveErrorThreshold = 1
    /\ cfg.MaxBackoffFactor = MaxBackoffCap
    /\ ~influxClientNil
    /\ data = <<>>

\* the poll goroutine with its notifications
SpecNotify == InitNotify /\ [][NextNotify]_vars

\* ---- pkg/cache with its snapshot files ----

\* Load: files[len(files)-1] of filepath.Glob("cache_*.json"), whose result
\* is sorted by name, that is by the date in the name
LatestFile_first(fs) ==
    CHOOSE d \in Days : /\ fs[d].state # "absent"
                        /\ \A e \in Days : fs[e].state # "absent" => d <= e

LatestFile(fs) ==
    CHOOSE d \in Days : /\ fs[d].state # "absent"
                        /\ \A e \in Days : fs[e].state # "absent" => d >= e

\* NewCache: an empty slice, then Load; without a file, or with a file that
\* json.Unmarshal rejects (warning only), the cache starts empty
NewCache(fs) ==
    IF \A d \in Days : fs[d].state = "absent" THEN <<>>
    ELSE IF fs[LatestFile(fs)].state = "truncated" THEN <<>>
    ELSE Unmarshal(fs[LatestFile(fs)].text)

\* what os.WriteFile can do to the file of the day: write it, fail before it
\* is opened (file as it was), fail after O_TRUNC emptied it
WriteOutcomes == {"written", "notOpened", "truncated"}

\* Cache.save: cache_<date of today>.json gets the JSON of c.data
save(fs, day, d, outcome) ==
    IF outcome = "written"
    THEN [fs EXCEPT ![day] = [state |-> "written", text |-> Marshal(d)]]
    ELSE IF outcome = "truncated"
    THEN [fs EXCEPT ![day] = [state |-> "truncated", text |-> <<>>]]
    ELSE fs

\* os.WriteFile sets the modification time of the file it has opened
touch(mt, day, t, outcome) ==
    IF outcome = "notOpened" THEN mt ELSE [mt EXCEPT ![day] = t]

\* Cache.Add(dataPoints): append, then save; the error of save is returned;
\* for batches of the given sizes and the given outcomes of os.WriteFile
CacheAddWith(sizes, outcomes) ==
    /\ \E m \in sizes, w \in outcomes :
         /\ fetched + m <= MaxCachePoints
         /\ data' = CacheAdd(data, Fresh(fetched, m))
         /\ fetched' = fetched + m
         /\ files' = save(files, today, data', w)
         /\ mtime' = touch(mtime, today, tick, w)
         /\ cacheOp' = [op |-> "Add", ok |-> (w = "written"), before |-> data,
                        n |-> m, allOk |-> (cacheOp.allOk /\ w = "written"),
                        wasAllOk |-> cacheOp.allOk]
    /\ UNCHANGED <<constVars, addVars, readerVars, healthVars, slackVars, clientVars, outside, tickerVars,
                   monitorVars, influxHealthy, LastPollTime, now, disk, sink,
                   pc, telemetryData, syncVars, hist, today, tick>>

CacheAddCall == CacheAddWith(1..MaxBatch, WriteOutcomes)

\* Cache.Clear: a new empty slice, then save; for the given outcomes of
\* os.WriteFile
CacheClearWith(outcomes) ==
    /\ \E w \in outcomes :
         /\ data' = CacheClear(data)
         /\ files' = save(files, today, data', w)
         /\ mtime' = touch(mtime, today, tick, w)
         /\ cacheOp' = [op |-> "Clear", ok |-> (w = "written"), before |-> data,
                        n |-> 0, allOk |-> (cacheOp.allOk /\ w = "written"),
                        wasAllOk |-> cacheOp.allOk]
    /\ UNCHANGED <<constVars, addVars, readerVars, healthVars, slackVars, clientVars, outside, tickerVars,
                   monitorVars, influxHealthy, LastPollTime, now, disk, sink,
                   pc, telemetryData, syncVars, fetched, hist, today, tick>>

CacheClearCall == CacheClearWith(WriteOutcomes)

\* midnight: time.Now() formats to the next date
DayPasses ==
    /\ today < MaxDays
    /\ today' = today + 1
    /\ UNCHANGED <<constVars, addVars, readerVars, healthVars, slackVars, clientVars, outside, tickerVars,
                   monitorVars, influxHealthy, LastPollTime, now, cacheVars,
                   sink, pc, telemetryData, syncVars, fetched, hist, files,
                   cacheOp, tick, mtime>>

\* the process is restarted: NewCache on the same directory
NewCacheAgain ==
    /\ data' = NewCache(files)
    /\ cacheOp' = [op |-> "NewCache", ok |-> TRUE, before |-> data, n |-> 0,
                   allOk |-> TRUE, wasAllOk |-> cacheOp.allOk]
    /\ UNCHANGED <<constVars, addVars, readerVars, healthVars, slackVars, clientVars, outside, tickerVars,
                   monitorVars, influxHealthy, LastPollTime, now, disk, sink,
                   pc, telemetryData, syncVars, fetched, hist, files, today,
                   tick, mtime>>

NextCache ==
    \/ CacheAddCall
    \/ CacheClearCall
    \/ DayPasses
    \/ NewCacheAgain

\* one configuration, with or without a snapshot file left by an earlier run
InitCache ==
    /\ Init
    /\ cfg.ConsecutiveErrorThreshold = 1
    /\ cfg.MaxBackoffFactor = MaxBackoffCap
    /\ ~influxClientNil

\* the calls on one Cache over several days and restarts
SpecCache == InitCache /\ [][NextCache]_vars

\* ---- the retention janitor ----
\* Time is today * TicksPerDay + tick; a file's modification time is the day
\* in its name (save writes only the file of the current date) and mtime.

\* time.Now() and info.ModTime() in ticks
TimeOf(day, t) == day * TicksPerDay + t

\* a variant: a file exactly maxAge old is removed as well
IsOld_orEqual(modTime, nowT, maxAge) == modTime <= nowT - maxAge

\* cutoff := time.Now().Add(-maxAge); info.ModTime().Before(cutoff)
IsOld(modTime, nowT, maxAge) == modTime < nowT - maxAge

\* the clock moves on by one tick, over midnight after the last tick of a day
TimePasses ==
    /\ IF tick = TicksPerDay - 1
       THEN today < MaxDays /\ today' = today + 1 /\ tick' = 0
       ELSE tick' = tick + 1 /\ UNCHANGED today
    /\ UNCHANGED <<constVars, addVars, readerVars, healthVars, slackVars, clientVars,
                   outside, tickerVars, monitorVars, influxHealthy,
                   LastPollTime, now, cacheVars, sink, pc, telemetryData,
                   syncVars, fetched, hist, files, cacheOp, mtime>>

\* cleanupCache: Cache.CleanupOldFiles(CacheRetentionDays * 24 h), which
\* removes each file of the Glob whose ModTime is before the cutoff; a file
\* that os.Stat or os.Remove fails on stays (a warning is printed and nil is
\* returned).  Cache.mu is not taken and c.data is not touched.
CleanupOldFilesCall ==
    /\ \E retentionDays \in 1..MaxRetentionDays :
         LET maxAge == retentionDays * TicksPerDay
             old == {d \in Days : /\ files[d].state # "absent"
                                  /\ IsOld(TimeOf(d, mtime[d]),
                                           TimeOf(today, tick), maxAge)}
         IN  \E failed \in SUBSET old :
             /\ files' = [d \in Days |->
                             IF d \in old \ failed THEN NoFile ELSE files[d]]
             /\ cacheOp' = [op |-> "CleanupOldFiles", ok |-> TRUE,
                            before |-> data, n |-> retentionDays,
                            allOk |-> cacheOp.allOk,
                            wasAllOk |-> cacheOp.allOk,
                            dir |-> files, at |-> TimeOf(today, tick),
                            notRemoved |-> failed]
    /\ UNCHANGED <<constVars, addVars, readerVars, healthVars, slackVars, clientVars,
                   outside, tickerVars, monitorVars, influxHealthy,
                   LastPollTime, now, cacheVars, sink, pc, telemetryData,
                   syncVars, fetched, hist, today, tick, mtime>>

\* Cache.Add of one data point and Cache.Clear whose os.WriteFile succeeds
JanitorAdd == CacheAddWith({1}, {"written"})
JanitorClear == CacheClearWith({"written"})

NextJanitor ==
    \/ JanitorAdd
    \/ JanitorClear
    \/ TimePasses
    \/ CleanupOldFilesCall

\* an empty cache directory
InitJanitor == InitCache /\ data = <<>>

\* the calls on one Cache and the janitor over several days
SpecJanitor == InitJanitor /\ [][NextJanitor]_vars

\* ---- Cache.Add called by several tasks ----
\* Add runs c.mu.Lock(), the append, save and the deferred Unlock; the steps
\* of different tasks interleave wherever the mutex lets them.

WithoutAddVars ==
    <<constVars, readerVars, healthVars, slackVars, clientVars, outside,
      tickerVars, monitorVars, influxHealthy, LastPollTime, now, disk, sink,
      pc, telemetryData, syncVars, hist, today, tick>>

\* a variant: Lock never waits
MuFree_always(holder) == TRUE

\* c.mu.Lock() returns when no task holds the mutex
MuFree(holder) == holder = 0

\* a task calls Cache.Add with a batch of new data points
AddCalled(t) ==
    /\ adders[t].pc = "idle"
    /\ \E m \in 1..MaxBatch :
         /\ fetched + m <= MaxCachePoints
         /\ adders' = [adders EXCEPT ![t] = [pc |-> "lock", buf |-> <<>>,
                                            dataPoints |-> Fresh(fetched, m)]]
         /\ fetched' = fetched + m
    /\ UNCHANGED <<WithoutAddVars, data, files, mtime, cacheOp, mu>>

\* c.mu.Lock()
AddLocks(t) ==
    /\ adders[t].pc = "lock"
    /\ MuFree(mu)
    /\ mu' = t
    /\ adders' = [adders EXCEPT ![t].pc = "read"]
    /\ UNCHANGED <<WithoutAddVars, data, files, mtime, cacheOp, fetched>>

\* append(c.data, dataPoints...): the slice is read ...
AddReads(t) ==
    /\ adders[t].pc = "read"
    /\ adders' = [adders EXCEPT ![t].pc = "write", ![t].buf = data]
    /\ UNCHANGED <<WithoutAddVars, data, files, mtime, cacheOp, fetched, mu>>

\* ... and c.data is assigned the longer one
AddWrites(t) ==
    /\ adders[t].pc = "write"
    /\ data' = CacheAdd(adders[t].buf, adders[t].dataPoints)
    /\ adders' = [adders EXCEPT ![t].pc = "save"]
    /\ UNCHANGED <<WithoutAddVars, files, mtime, cacheOp, fetched, mu>>

\* c.save()
AddSaves(t) ==
    /\ adders[t].pc = "save"
    /\ \E w \in WriteOutcomes :
         /\ files' = save(files, today, data, w)
         /\ mtime' = touch(mtime, today, tick, w)
         /\ cacheOp' = [op |-> "Add", ok |-> (w = "written"), before |-> adders[t].buf,
                        n |-> Len(adders[t].dataPoints),
                        allOk |-> (cacheOp.allOk /\ w = "written"),
                        wasAllOk |-> cacheOp.allOk]
    /\ adders' = [adders EXCEPT ![t].pc = "unlock"]
    /\ UNCHANGED <<WithoutAddVars, data, fetched, mu>>

\* the deferred c.mu.Unlock(); Add returns
AddUnlocks(t) ==
    /\ adders[t].pc = "unlock"
    /\ mu' = IF mu = t THEN 0 ELSE mu
    /\ adders' = [adders EXCEPT ![t].pc = "done"]
    /\ UNCHANGED <<WithoutAddVars, data, files, mtime, cacheOp, fetched>>

NextAdders ==
    \E t \in Tasks :
        \/ AddCalled(t)
        \/ AddLocks(t)
        \/ AddReads(t)
        \/ AddWrites(t)
        \/ AddSaves(t)
        \/ AddUnlocks(t)

\* several tasks, each calling Cache.Add once
SpecAdders == InitCache /\ [][NextAdders]_vars

\* ---- poll's state changes accessor by accessor, with a reader ----
\* Every accessor takes Monitor.mu for one field and releases it, so each
\* step below is one locked access; the writes are those of poll after
\* GetTelemetry returned.

WithoutReaderVars ==
    <<constVars, addVars, healthVars, dirVars, slackVars, clientVars, outside,
      tickerVars, influxHealthy, LastPollTime, now, cacheVars, sink, pc, telemetryData,
      syncVars, fetched, hist>>

\* err != nil: m.incrementConsecutiveErr()
PollIncrementConsecutiveErr ==
    /\ pollStep = "fetch"
    /\ consecutiveErr < MaxThreshold + MaxBackoffCap
    /\ consecutiveErr' = consecutiveErr + 1
    /\ pollStep' = "counted"
    /\ UNCHANGED <<WithoutReaderVars, degradedMode, backoffFactor, reader>>

\* the threshold test: setDegradedMode(true) on entry, incrementBackoffFactor
\* below the maximum when already degraded, else nothing
PollSetDegradedMode ==
    /\ pollStep = "counted"
    /\ IF consecutiveErr >= cfg.ConsecutiveErrorThreshold
       THEN IF ~degradedMode
            THEN /\ degradedMode' = TRUE
                 /\ pollStep' = "entered"
                 /\ UNCHANGED backoffFactor
            ELSE /\ backoffFactor' = IF backoffFactor < cfg.MaxBackoffFactor
                                     THEN backoffFactor + 1
                                     ELSE backoffFactor
                 /\ pollStep' = "fetch"
                 /\ UNCHANGED degradedMode
       ELSE /\ pollStep' = "fetch"
            /\ UNCHANGED <<degradedMode, backoffFactor>>
    /\ UNCHANGED <<WithoutReaderVars, consecutiveErr, reader>>

\* m.setBackoffFactor(2) after setDegradedMode(true)
PollSetEntryBackoff ==
    /\ pollStep = "entered"
    /\ backoffFactor' = DegradedEntryBackoff
    /\ pollStep' = "fetch"
    /\ UNCHANGED <<WithoutReaderVars, consecutiveErr, degradedMode, reader>>

\* err == nil: if getDegradedMode() then setDegradedMode(false), else on to
\* resetConsecutiveErr()
PollClearDegradedMode ==
    /\ pollStep = "fetch"
    /\ IF degradedMode
       THEN /\ degradedMode' = FALSE
            /\ pollStep' = "left"
            /\ UNCHANGED consecutiveErr
       ELSE /\ consecutiveErr' = 0
            /\ pollStep' = "fetch"
            /\ UNCHANGED degradedMode
    /\ UNCHANGED <<WithoutReaderVars, backoffFactor, reader>>

\* m.setBackoffFactor(1) after setDegradedMode(false)
PollResetBackoff ==
    /\ pollStep = "left"
    /\ backoffFactor' = 1
    /\ pollStep' = "reset"
    /\ UNCHANGED <<WithoutReaderVars, consecutiveErr, degradedMode, reader>>

\* m.resetConsecutiveErr()
PollResetConsecutiveErr ==
    /\ pollStep = "reset"
    /\ consecutiveErr' = 0
    /\ pollStep' = "fetch"
    /\ UNCHANGED <<WithoutReaderVars, degradedMode, backoffFactor, reader>>

\* the reader calls getDegradedMode, getBackoffFactor and getConsecutiveErr
\* one after the other and then looks at the three values together
ReaderGets ==
    /\ reader' =
         IF reader.pc = "getDegradedMode"
         THEN [reader EXCEPT !.degradedMode = degradedMode, !.done = FALSE,
                             !.pc = "getBackoffFactor"]
         ELSE IF reader.pc = "getBackoffFactor"
         THEN [reader EXCEPT !.backoffFactor = backoffFactor,
                             !.pc = "getConsecutiveErr"]
         ELSE [reader EXCEPT !.consecutiveErr = consecutiveErr, !.done = TRUE,
                             !.pc = "getDegradedMode"]
    /\ UNCHANGED <<WithoutReaderVars, monitorVars, pollStep>>

NextReader ==
    \/ PollIncrementConsecutiveErr
    \/ PollSetDegradedMode
    \/ PollSetEntryBackoff
    \/ PollClearDegradedMode
    \/ PollResetBackoff
    \/ PollResetConsecutiveErr
    \/ ReaderGets

\* poll's accessor calls interleaved with a reader's
SpecReader == Init /\ [][NextReader]_vars

\* ---- the health server's readiness endpoint ----

\* the component names main registers
CheckerNames == {"influxdb", "octopus_api", "cache"}

\* Status
Statuses == {"healthy", "unhealthy", "degraded"}

WithoutHealthVars ==
    <<constVars, addVars, readerVars, dirVars, slackVars, clientVars, outside,
      tickerVars, monitorVars, influxHealthy, LastPollTime, now, cacheVars,
      sink, pc, telemetryData, syncVars, fetched, hist>>

\* a variant: a degraded component makes the service not ready as well
NotReady_degradedToo(status) == status \in {"unhealthy", "degraded"}

\* if health.Status == StatusUnhealthy { ready = false }
NotReady(status) == status = "unhealthy"

\* s.checkers[name] = checker; main registers before Start
RegisterChecker ==
    /\ ~healthSrv.started
    /\ \E name \in CheckerNames :
          healthSrv' = [healthSrv EXCEPT !.checkers = @ \cup {name}]
    /\ UNCHANGED <<WithoutHealthVars, readiness>>

\* Server.Start: the handlers are reachable from here on
ServerStart ==
    /\ ~healthSrv.started
    /\ healthSrv' = [healthSrv EXCEPT !.started = TRUE]
    /\ UNCHANGED <<WithoutHealthVars, readiness>>

\* readinessHandler up to the loop: copy s.checkers under the read lock,
\* components empty, ready true, one goroutine per copied checker
ReadinessBegin ==
    /\ healthSrv.started
    /\ readiness.pc \in {"none", "responded"}
    /\ readiness' = [pc |-> "checking", pending |-> healthSrv.checkers,
                     components |-> <<>>, returned |-> {}, ready |-> TRUE,
                     code |-> 0]
    /\ UNCHANGED <<WithoutHealthVars, healthSrv>>

\* one goroutine: health := check(ctx), then under mu the components entry
\* and ready = false for an unhealthy status
CheckerReturns ==
    /\ readiness.pc = "checking"
    /\ \E name \in readiness.pending, status \in Statuses :
          readiness' =
              [readiness EXCEPT
                  !.pending = @ \ {name},
                  !.components = (name :> status) @@ @,
                  !.returned = @ \cup {<<name, status>>},
                  !.ready = IF NotReady(status) THEN FALSE ELSE @]
    /\ UNCHANGED <<WithoutHealthVars, healthSrv>>

\* after wg.Wait(): 200 when ready, 503 otherwise
ReadinessRespond ==
    /\ readiness.pc = "checking"
    /\ readiness.pending = {}
    /\ readiness' = [readiness EXCEPT
                        !.pc = "responded",
                        !.code = IF readiness.ready THEN 200 ELSE 503]
    /\ UNCHANGED <<WithoutHealthVars, healthSrv>>

NextHealth ==
    \/ RegisterChecker
    \/ ServerStart
    \/ ReadinessBegin
    \/ CheckerReturns
    \/ ReadinessRespond

\* registration, start, and /ready requests
SpecHealth == Init /\ [][NextHealth]_vars

\* ================================================================ claims
Threshold == cfg.ConsecutiveErrorThreshold
MaxFactor == cfg.MaxBackoffFactor

\* C1: starting from Normal, after exactly ConsecutiveErrorThreshold
\* consecutive failed poll cycles the monitor is degraded with backoff factor
\* 2, and after one failure less it is still not degraded with factor 1.
C1_EntryAtThreshold ==
    /\ hist.failStreak = Threshold =>
         degradedMode /\ backoffFactor = 2
    /\ hist.failStreak = Threshold - 1 =>
         ~degradedMode /\ backoffFactor = 1

C1_Witness ==
    /\ pc = "idle"
    /\ Threshold = 2
    /\ hist.failStreak = Threshold
    /\ hist.cycle.pre.consecutiveErr = Threshold - 1
    /\ ~hist.cycle.pre.degradedMode
    /\ degradedMode

C3_SuccessResets ==
    (pc = "idle" /\ hist.cycle.fetchOk) =>
        consecutiveErr = 0 /\ ~degradedMode /\ backoffFactor = 1

C3_Witness ==
    /\ pc = "idle"
    /\ hist.cycle.fetchOk
    /\ hist.cycle.pre.degradedMode
    /\ hist.cycle.pre.backoffFactor = 2
    /\ hist.cycle.pre.consecutiveErr >= 1

\* C4: in every reachable state, for every configuration accepted by
\* Config.Validate, 1 <= backoffFactor <= MaxBackoffFactor.
C4_BackoffWithinConfiguredMax ==
    Validate(cfg) => (1 <= backoffFactor /\ backoffFactor <= MaxFactor)

\* C5: at the end of every poll cycle degraded holds exactly when
\* consecutiveErr has reached the threshold, and backoffFactor is 1 whenever
\* the monitor is not degraded.
C5_DegradedIffThreshold ==
    pc = "idle" =>
        /\ degradedMode = (consecutiveErr >= Threshold)
        /\ (~degradedMode => backoffFactor = 1)

C5_Witness ==
    /\ pc = "idle"
    /\ hist.cycle.fetchOk
    /\ hist.cycle.pre.degradedMode
    /\ hist.cycle.pre.consecutiveErr >= Threshold
    /\ ~degradedMode
    /\ consecutiveErr = 0

\* C6: when a poll cycle with a successful fetch ends, every measurement of
\* its batch is stored in the sink or held by the in-memory cache.
C6_FetchedNeverDropped ==
    (pc = "idle" /\ hist.cycle.fetchOk) =>
        \A x \in Range(telemetryData) : x \in sink \/ x \in Range(data)

\* a cycle that went through a failed probe, a successful reconnect, a drain
\* that failed, and a snapshot that could not be persisted
C6_Witness ==
    /\ pc = "idle"
    /\ hist.cycle.fetchOk
    /\ Len(telemetryData) = 2
    /\ hist.cycle.probes = <<FALSE, TRUE>>
    /\ hist.drain.ran /\ hist.drain.failedAt = 2
    /\ disk # data
    /\ \E x \in Range(telemetryData) : x \notin sink

C8_FailedBatchCachedWhole ==
    (pc = "idle" /\ hist.cycle.writeFailedAt >= 1) =>
        /\ ~influxHealthy
        /\ data = hist.cycle.routeBase \o telemetryData

C8_Witness ==
    /\ pc = "idle"
    /\ hist.cycle.writeFailedAt = 2
    /\ Len(telemetryData) = 2
    /\ telemetryData[1] \in sink
    /\ telemetryData[1] \in Range(data)
    /\ ~influxHealthy

\* C9: after a drain attempt in which the sink fails on the k-th write, the
\* cache still holds all n original entries in their original order and
\* sinkHealthy is false.
C9_FailedDrainKeepsCacheAndMarksUnhealthy ==
    (pc = "syncReturn" /\ hist.drain.ran /\ hist.drain.failedAt >= 1) =>
        /\ data = hist.drain.before
        /\ ~influxHealthy

\* C10: after a drain attempt that wrote all n cached entries successfully
\* (no push during the drain) the cache is empty and sinkHealthy is true.
C10_FullDrainEmptiesCache ==
    (pc = "syncReturn" /\ hist.drain.ran /\ hist.drain.cleared) =>
        /\ CacheCount(data) = 0
        /\ influxHealthy

C10_Witness ==
    /\ pc = "syncReturn"
    /\ hist.drain.ran /\ hist.drain.cleared
    /\ Len(hist.drain.before) >= 2
    /\ Range(hist.drain.before) \subseteq sink
    /\ data = <<>>

\* C11: when another task calls Cache.Add between SyncCache's Cache.GetAll and
\* its Cache.Clear, a drain whose writes all succeeded leaves exactly the
\* entries added during the drain in the cache.
C11_DrainRemovesOnlySnapshot ==
    (pc = "syncReturn" /\ hist.drain.ran /\ hist.drain.cleared) =>
        data = hist.drain.added

\* C12: once the sink is reachable for good (every probe and every sink
\* write succeeds) and poll cycles keep running with successful non-empty
\* fetches, a non-empty cache eventually becomes empty, whatever the value of
\* sinkHealthy; read on runs whose sink client was created at startup.
C12_CacheEventuallyDrained ==
    (sinkReliable /\ ~influxClientNil /\ Len(data) > 0) ~> (Len(data) = 0)

\* C13: in a poll cycle whose probe takes the sink from unhealthy to healthy,
\* SyncCache has returned (drain complete or aborted) before any measurement
\* of the cycle's batch is written directly to the sink, and no direct write
\* has happened while a drain is running.
C13_DrainBeforeDirectWrite ==
    /\ (hist.cycle.recovered /\ hist.cycle.direct) => hist.cycle.directAfterSync
    /\ pc \in {"sync", "syncWrite", "syncClear", "syncReturn"} => ~hist.cycle.direct

\* a recovery whose drain wrote two cached entries before the fresh batch of
\* two was written
C13_Witness ==
    /\ pc = "idle"
    /\ hist.cycle.recovered /\ hist.cycle.direct
    /\ hist.cycle.probes = <<TRUE>>
    /\ hist.drain.ran /\ hist.drain.cleared
    /\ Len(hist.drain.before) = 2
    /\ Len(telemetryData) = 2
    /\ Range(telemetryData) \subseteq sink

C16_NoCycleAfterStop ==
    ~hist.cycle.afterStop

\* C17: when Run is back at its select after a poll cycle, its ticker runs at
\* PollInterval * f with f the backoffFactor the cycle ended with (f = 1: the
\* base interval); while the cycle is in flight the ticker still has the
\* period set after the cycle before.
C17_TickerFollowsBackoff ==
    /\ pc = "idle" => tickerPeriod = backoffFactor
    /\ pc \in {"check", "route", "reconnect", "rearm"} =>
           tickerPeriod = hist.cycle.pre.backoffFactor

\* the cycle that enters degraded mode stretches the period from 1 to 2
C17_Witness ==
    /\ pc = "idle"
    /\ hist.cycle.pre.backoffFactor = 1
    /\ ~hist.cycle.fetchOk
    /\ backoffFactor = 2
    /\ tickerPeriod = 2

\* C18: after stopChan is closed Run and RunCacheCleanup (when started)
\* eventually return, every cycle in flight terminating; main goes on to
\* "stopped gracefully" only when both have returned, and otherwise only by
\* the ShutdownTimeout.
C18_LoopsReturnAndMainWaits ==
    /\ [](mainPc = "stopped" =>
            (pc = "returned" /\ cleanupPc \in {"off", "returned"}))
    /\ [](mainPc \in {"waiting", "stopped", "timedOut"} => stopChan = "closed")
    /\ (stopChan = "closed") ~>
            (pc = "returned" /\ cleanupPc \in {"off", "returned"})

\* the stop signal arrived while a poll cycle was in flight; both loops
\* returned and main saw the WaitGroup complete
C18_Witness ==
    /\ mainPc = "stopped"
    /\ hist.stopInFlight
    /\ pc = "returned"
    /\ cleanupPc = "returned"

\* C19: once an attempt of a GetTelemetry call has failed with a permanent
\* error, that call makes no further attempt.
C19_PermanentErrorNotRetried ==
    call.afterPermanent = 0

\* C20: a call that finds the breaker closed leaves it open exactly when the
\* call failed and the counts of the window, this call included, have at
\* least 3 requests of which at least 60% failed.
C20_OpensExactlyAtThreshold ==
    call.last.stateBefore = "closed" =>
        (call.last.stateAfter = "open" <=>
            /\ call.last.failed
            /\ call.last.counts.Requests >= 3
            /\ 10 * call.last.counts.TotalFailures
                   >= 6 * call.last.counts.Requests)

\* the breaker opened on the fifth request of a window with three failures
C20_Witness ==
    /\ call.last.stateBefore = "closed"
    /\ call.last.stateAfter = "open"
    /\ call.last.counts.Requests = 5
    /\ call.last.counts.TotalFailures = 3
    /\ cb.state = "open"

\* C21: a call that finds the breaker open returns an error and runs the
\* underlying operation not even once.
C21_OpenRefusesWithoutAttempt ==
    call.stateAtBegin = "open" =>
        /\ call.pc = "none"
        /\ call.attempts = 0
        /\ call.err = "open"

\* a call was refused by the breaker that a failed call had opened
C21_Witness ==
    /\ call.stateAtBegin = "open"
    /\ call.err = "open"
    /\ cb.state = "open"
    /\ call.last.stateAfter = "open"
    /\ call.last.failed

\* C22: an open breaker leaves the open state only for half-open; half-open
\* never has more than 3 calls let through; a failed trial call reopens the
\* breaker; a successful one closes it exactly when it is the third success,
\* and leaves it half-open otherwise.
C22_HalfOpenTrials ==
    /\ [](cb.state = "half-open" => cb.counts.Requests <= cbMaxRequests)
    /\ [](call.last.stateBefore = "half-open" =>
            IF call.last.failed
            THEN call.last.stateAfter = "open"
            ELSE IF call.last.counts.TotalSuccesses >= cbMaxRequests
            THEN call.last.stateAfter = "closed"
            ELSE call.last.stateAfter = "half-open")
    /\ [][cb.state = "open" => cb'.state \in {"open", "half-open"}]_vars

\* three trial calls succeeded and the breaker closed
C22_Witness ==
    /\ call.last.stateBefore = "half-open"
    /\ call.last.stateAfter = "closed"
    /\ ~call.last.failed
    /\ call.last.counts.TotalSuccesses = cbMaxRequests
    /\ cb.state = "closed"

\* C23: a notification, whatever its outcome (sent, failed, refused by the
\* open breaker, no notifier), changes neither the monitor state, the sink
\* health flag, lastPollTime, the cache, the sink, the batch in hand nor the
\* position of the cycle.
C23_NotificationChangesNothing ==
    [][slack' # slack =>
         UNCHANGED <<monitorVars, influxHealthy, LastPollTime, cacheVars, sink,
                     pc, telemetryData, syncVars>>]_vars

\* an info notification failed in the cycle that recovered from degraded
\* mode, with the sink healthy and the batch not yet routed
C23_Witness ==
    /\ slack.last = <<"info", "failed">>
    /\ pc = "route"
    /\ Len(telemetryData) > 0
    /\ influxHealthy
    /\ hist.cycle.pre.degradedMode

\* C24: when every Add and Clear since the cache was created has succeeded,
\* a new Cache created on the same directory holds the same sequence of data
\* points as the cache in memory held.
C24_ReloadGivesSameSequence ==
    (cacheOp.op = "NewCache" /\ cacheOp.wasAllOk) => data = cacheOp.before

\* a non-empty cache was reloaded on the second day, when the file of the
\* first day holds something else
C24_Witness ==
    /\ cacheOp.op = "NewCache"
    /\ cacheOp.wasAllOk
    /\ Len(data) >= 2
    /\ today = 1
    /\ files[0].state = "written"
    /\ files[1].state = "written"
    /\ files[0].text # files[1].text

\* C25: when the save inside Cache.Add fails (the snapshot file is not the
\* memory afterwards), the memory holds the old entries followed by the whole
\* batch and Count has grown by the size of the batch; and a drain that runs
\* to its end with unsaved entries in the cache has written every entry the
\* cache held to the sink.
C25_UnsavedBatchKeptAndDrained ==
    /\ (pc = "reconnect" /\ disk # data) =>
          /\ data = hist.cycle.routeBase \o ToDataPoints(telemetryData)
          /\ CacheCount(data) =
                 CacheCount(hist.cycle.routeBase) + Len(telemetryData)
    /\ (pc = "syncReturn" /\ hist.drain.ran /\ hist.drain.cleared
            /\ ~hist.drain.persisted) =>
          Range(hist.drain.before) \subseteq sink

\* a batch of two was cached with a failed save on top of an older entry,
\* the sink came back in the same cycle and the drain wrote all three
C25_Witness ==
    /\ pc = "syncReturn"
    /\ hist.drain.ran /\ hist.drain.cleared /\ ~hist.drain.persisted
    /\ Len(telemetryData) = 2
    /\ Len(hist.cycle.routeBase) = 1
    /\ hist.drain.before = hist.cycle.routeBase \o ToDataPoints(telemetryData)
    /\ disk = hist.cycle.routeBase
    /\ Range(telemetryData) \subseteq sink

\* C26: a reader that has read degradedMode, backoffFactor and consecutiveErr
\* through the accessors never holds degraded = false together with a backoff
\* factor above 1 or with an error count at or above the threshold.
C26_ReaderSeesInvariant ==
    reader.done =>
        /\ ~(~reader.degradedMode /\ reader.backoffFactor > 1)
        /\ ~(~reader.degradedMode
                /\ reader.consecutiveErr >= cfg.ConsecutiveErrorThreshold)

\* C27: a /ready response is 200 exactly when no registered checker returned
\* unhealthy and 503 when one did, it is 200 when no checker is registered,
\* and its components hold one entry per registered checker.
C27_ReadyIffNoneUnhealthy ==
    readiness.pc = "responded" =>
        LET unhealthy == {name \in healthSrv.checkers :
                              <<name, "unhealthy">> \in readiness.returned}
        IN  /\ readiness.code = 200 <=> unhealthy = {}
            /\ readiness.code = 503 <=> unhealthy # {}
            /\ readiness.ready <=> readiness.code = 200
            /\ healthSrv.checkers = {} => readiness.code = 200
            /\ DOMAIN readiness.components = healthSrv.checkers
            /\ \A name \in healthSrv.checkers :
                  <<name, readiness.components[name]>> \in readiness.returned

\* a response to three checkers of which one is degraded and none unhealthy,
\* and so ready
C27_Witness ==
    /\ readiness.pc = "responded"
    /\ healthSrv.checkers = CheckerNames
    /\ <<"cache", "degraded">> \in readiness.returned
    /\ readiness.code = 200

\* C28: a drain attempts the snapshot's entries one at a time in cache order;
\* when the k-th write fails exactly the first k entries were attempted, the
\* later ones were not, Cache.Clear was not called and the cache is as it was.
C28_DrainStopsAtFirstFailure ==
    /\ hist.drain.ran =>
          /\ Len(hist.drain.attempts) <= Len(hist.drain.before)
          /\ hist.drain.attempts =
                SubSeq(hist.drain.before, 1, Len(hist.drain.attempts))
          /\ (pc = "syncWrite" => Len(hist.drain.attempts) = syncIdx - 1)
    /\ (hist.drain.ran /\ hist.drain.failedAt >= 1) =>
          /\ Len(hist.drain.attempts) = hist.drain.failedAt
          /\ ~hist.drain.cleared
          /\ pc # "syncClear"
          /\ (pc = "syncReturn" => data = hist.drain.before)

\* a drain of three entries whose second write failed
C28_Witness ==
    /\ pc = "syncReturn"
    /\ hist.drain.ran /\ hist.drain.failedAt = 2
    /\ Len(hist.drain.before) = 3
    /\ hist.drain.before[1] \in sink
    /\ hist.drain.before[3] \notin sink

\* C29: a checkInfluxHealth probe that fails while the sink is marked healthy
\* marks it unhealthy and goes on to the routing without a drain; the routing
\* of that cycle appends the batch to the cache and writes nothing to the sink.
C29_FailedProbeCachesBatch ==
    /\ [][(pc = "check" /\ influxHealthy /\ ~influxClientNil
              /\ Len(hist'.cycle.probes) = 1 /\ ~hist'.cycle.probes[1])
          => /\ ~influxHealthy'
             /\ pc' = "route"
             /\ sink' = sink /\ data' = data /\ hist'.drain = hist.drain]_vars
    /\ [][(pc = "route" /\ hist.cycle.healthyAtStart
              /\ hist.cycle.probes = <<FALSE>>)
          => /\ pc' = "reconnect"
             /\ data' = data \o ToDataPoints(telemetryData)
             /\ sink' = sink
             /\ ~hist'.cycle.direct]_vars

\* the batch of two is in the cache after a failed probe of a healthy sink
C29_Witness ==
    /\ pc = "reconnect"
    /\ hist.cycle.healthyAtStart
    /\ hist.cycle.probes = <<FALSE>>
    /\ Len(telemetryData) = 2
    /\ ~influxHealthy
    /\ ~hist.cycle.direct
    /\ Range(telemetryData) \subseteq Range(data)
    /\ Range(telemetryData) \cap sink = {}

\* C30: a poll cycle that starts with the sink marked unhealthy and whose
\* fetch succeeds has probed the sink by the time it ends, whatever the size
\* of the batch.
C30_UnhealthyCycleProbes ==
    (pc = "rearm" /\ hist.cycle.fetchOk /\ ~hist.cycle.healthyAtStart
        /\ ~influxClientNil)
    => Len(hist.cycle.probes) >= 1

\* C31: a monitor constructed while the sink could not be reached (no sink
\* client, sinkHealthy false) marks the sink healthy at some time after the
\* sink has become reachable for good.
C31_StartupOutageRecovers ==
    (influxClientNil /\ sinkReliable) ~> influxHealthy

\* C32: the step of a poll cycle whose fetch fails changes neither
\* lastPollTime nor sinkHealthy nor the cache (memory and file) nor the sink,
\* and the cycle ends there: no probe, no direct write and no drain belong to
\* it; what it changes of the monitor is consecutiveErr, degraded and
\* backoffFactor.
C32_FailedFetchTouchesOnlyDegradedState ==
    /\ [][(pc = "idle" /\ pc' # "idle" /\ ~hist'.cycle.fetchOk)
          => /\ pc' = "rearm"
             /\ UNCHANGED <<LastPollTime, influxHealthy, cacheVars, sink,
                            syncVars, fetched>>
             /\ consecutiveErr' = consecutiveErr + 1]_vars
    /\ []((hist.failStreak >= 1 /\ ~hist.cycle.fetchOk)
          => /\ pc \in {"rearm", "idle"}
             /\ hist.cycle.probes = <<>>
             /\ ~hist.cycle.direct /\ ~hist.cycle.synced
             /\ ~hist.drain.ran)

\* the second failed fetch in a row, with a healthy sink, a non-empty cache
\* and degraded mode entered
C32_Witness ==
    /\ pc = "rearm"
    /\ ~hist.cycle.fetchOk /\ hist.failStreak = 2
    /\ influxHealthy
    /\ Len(data) > 0 /\ disk = data
    /\ degradedMode
    /\ sink = {}

\* C33: when GetTelemetry has returned an error, whichever it is (transient
\* with the retries used up, permanent, or the breaker's refusal), poll adds
\* exactly one to consecutiveErr; consecutiveErr changes in no other way than
\* by this and by the reset to 0 after a fetch without error.
C33_EveryFailedFetchCountsOnce ==
    /\ [][(pollStep = "fetching" /\ pollStep' = "fetch")
          => IF call.err \in {"transient", "permanent", "open", "tooMany"}
             THEN consecutiveErr' = consecutiveErr + 1
             ELSE call.err = "nil" /\ consecutiveErr' = 0]_vars
    /\ [][consecutiveErr' # consecutiveErr
          => /\ pollStep = "fetching" /\ pollStep' = "fetch"
             /\ consecutiveErr' \in {consecutiveErr + 1, 0}]_vars

\* the fourth failure in a row is a refusal by the open breaker
C33_Witness ==
    /\ pollStep = "fetch"
    /\ call.err = "open"
    /\ call.attempts = 0
    /\ consecutiveErr = 4
    /\ cb.state = "open"

\* C34: the sink is marked unhealthy after a live write only when the
\* breaker refused the call or when the write, having failed with a transient
\* error, was attempted again before the retry policy gave up.
C34_TransientWriteRetried ==
    [][(influxHealthy /\ ~influxHealthy')
       => \/ call.err \in {"open", "tooMany"}
          \/ call.err = "permanent"
          \/ call.err = "transient" /\ call.attempts >= 2]_vars

\* C35: within one sendWithRetry no attempt follows a 4xx answer, and the
\* error is returned; after a 5xx answer or a failed request NextBackOff is
\* asked, which re-attempts while the time budget lasts; a 200 answer ends
\* the call with nil.
C35_SendStopsOn4xxRetriesOn5xx ==
    /\ [](call.afterPermanent = 0)
    /\ [][(call.pc = "attempt" /\ call'.pc # "attempt")
          => LET st == call'.status IN
             /\ call'.attempts = call.attempts + 1
             /\ (st >= 400 /\ st < 500)
                    => call'.pc = "after" /\ call'.err # "nil"
             /\ st = 200 => call'.pc = "after" /\ call'.err = "nil"
             /\ (st = 0 \/ st >= 500) => call'.pc = "backoff"]_vars
    /\ [][(call.pc = "backoff" /\ call'.pc # "backoff")
          => /\ call'.pc \in {"attempt", "after"}
             /\ call'.err = call.err /\ call'.err # "nil"]_vars

\* a send that ended at its second attempt, which was answered 404 after a
\* first answer of 503
C35_Witness ==
    /\ call.pc = "after"
    /\ call.attempts = 2
    /\ call.status = 404
    /\ call.sawPermanent
    /\ call.err = "slack returned client error status"

\* C36: the notifications of entering and leaving degraded mode alternate,
\* the first being "entered"; one is sent exactly in the cycle that enters
\* degraded mode and one exactly in the cycle that leaves it, which is the
\* first successful one; no other cycle sends either.
C36_EnteredAndRecoveredAlternate ==
    /\ [](\A i \in 1..Len(hist.notes) :
             hist.notes[i] = IF i % 2 = 1 THEN "entered" ELSE "recovered")
    /\ [](degradedMode <=> Len(hist.notes) % 2 = 1)
    /\ [][/\ (~degradedMode /\ degradedMode')
                 => hist'.notes = Append(hist.notes, "entered")
          /\ (degradedMode /\ hist'.cycle.fetchOk /\ hist' # hist)
                 => /\ ~degradedMode'
                    /\ hist'.notes = Append(hist.notes, "recovered")
          /\ (degradedMode' = degradedMode) => hist'.notes = hist.notes]_vars

\* two degraded episodes, both announced and both recovered from, and a
\* further successful cycle
C36_Witness ==
    /\ hist.notes = <<"entered", "recovered", "entered", "recovered">>
    /\ ~degradedMode
    /\ consecutiveErr = 0
    /\ cfg.ConsecutiveErrorThreshold = 2

\* C37: right after CleanupOldFiles(maxAge) every snapshot file that was
\* older than maxAge is gone (unless the file system refused to remove it),
\* every file that was not older is as it was, and the in-memory cache and
\* its count are what they were before the call.
C37_CleanupRemovesOnlyOldFiles ==
    cacheOp.op = "CleanupOldFiles" =>
        /\ \A d \in Days :
              LET age == cacheOp.at - TimeOf(d, mtime[d])
                  was == cacheOp.dir[d]
              IN  IF was.state # "absent" /\ age > cacheOp.n * TicksPerDay
                     /\ d \notin cacheOp.notRemoved
                  THEN files[d].state = "absent"
                  ELSE files[d] = was
        /\ data = cacheOp.before
        /\ CacheCount(data) = CacheCount(cacheOp.before)

\* a cleanup that removed the file of the day before yesterday and kept the
\* file of yesterday and the cache of two points
C37_Witness ==
    /\ cacheOp.op = "CleanupOldFiles"
    /\ today = 2
    /\ cacheOp.dir[0].state = "written" /\ files[0].state = "absent"
    /\ files[1].state = "written"
    /\ cacheOp.notRemoved = {}
    /\ Len(data) = 2

\* the number of data points the tasks have handed to Cache.Add
RECURSIVE PointsAdded(_)
PointsAdded(n) ==
    IF n = 0 THEN 0 ELSE Len(adders[n].dataPoints) + PointsAdded(n - 1)

\* C38: when every concurrent Cache.Add has returned, the cache holds what it
\* held before and every added data point once, Count is the sum, and the
\* snapshot file, if the last save wrote it, holds the same sequence.
C38_ConcurrentAddsLoseNothing ==
    (\A t \in Tasks : adders[t].pc = "done") =>
        /\ CacheCount(data) = Len(disk) + PointsAdded(MaxTasks)
        /\ \A t \in Tasks : Range(adders[t].dataPoints) \subseteq Range(data)
        /\ SubSeq(data, 1, Len(disk)) = disk
        /\ cacheOp.ok => /\ files[today].state = "written"
                         /\ Unmarshal(files[today].text) = data
                         /\ NewCache(files) = data

\* two tasks have added a data point each to a cache of one; the task that
\* asked first got the mutex second
C38_Witness ==
    /\ \A t \in Tasks : adders[t].pc = "done"
    /\ Len(disk) = 1
    /\ Len(data) = 3
    /\ data[2] = adders[2].dataPoints[1]
    /\ adders[1].dataPoints[1] < adders[2].dataPoints[1]
    /\ NewCache(files) = data

\* C39: at the end of every poll cycle (poll has returned to Run), the sink
\* being considered healthy implies that the cache is empty.
C39_HealthyAtCycleEndMeansEmptyCache ==
    (pc = "rearm" /\ influxHealthy) => Len(data) = 0

\* C40: under any interleaving of Cache.Add, Cache.Clear and CleanupOldFiles
\* with a retention of at least one day, whenever the in-memory cache is not
\* empty a snapshot file with its content is in the directory: NewCache on
\* the same directory gives the same data points.
C40_NonEmptyCacheHasSnapshot ==
    Len(data) > 0 =>
        /\ \E d \in Days : /\ files[d].state = "written"
                           /\ Unmarshal(files[d].text) = data
        /\ NewCache(files) = data

====
